---- MODULE Spec2Model ----
(***************************************************************************)
(* A state-machine model of the Radial Duplicator add-on: the construct    *)
(* layer (radial arrays, radial screws, radial duplicates) and the modal   *)
(* operators that edit them.                                               *)
(*                                                                         *)
(* Abstractions used throughout:                                           *)
(*  - space is one-dimensional: a world coordinate is an integer;          *)
(*  - an object's world matrix is a pure translation to its origin;        *)
(*  - a 4x4 matrix is a record [rot, tr, tp]: a rotation token, a          *)
(*    translation and a flag telling that the matrix is held transposed;   *)
(*  - angles are integers in micro-radians, so that round(x, 5) is a real  *)
(*    rounding (to ten micro-radians);                                     *)
(*  - a quotient of two numbers is a pair <<numerator, denominator>>;      *)
(*  - an optional value is a sequence of length 0 or 1.                    *)
(***************************************************************************)
EXTENDS Integers, Sequences, FiniteSets, TLC

VARIABLES scene, heap, op, ghost

vars == <<scene, heap, op, ghost>>

(***************************************************************************)
(* Bounds of the model.                                                    *)
(***************************************************************************)
\* the largest count the mouse wheel may reach
MaxCount == 7

\* digits 0..MaxDigit may be typed
MaxDigit == 2

\* the longest typed buffer
MaxTyped == 2

\* the largest count that may be typed for a Duplicates construct, which
\* makes that many objects
MaxTypedCount == 12

\* "add" may be pressed this many times in a session
MaxAdds == 1

\* events of an array session, after invoke
MaxArrayEvents == 3

\* events of a typing run, after invoke
MaxTypingEvents == 5

\* the largest steps the mouse wheel may reach
MaxSteps == 17

\* events of a screw session, after invoke
MaxScrewEvents == 3

BackspaceKey == 0 - 1

(***************************************************************************)
(* Generic helpers.                                                        *)
(***************************************************************************)
None == <<>>

Some(x) == <<x>>

Put(f, k, v) == [x \in (DOMAIN f) \cup {k} |-> IF x = k THEN v ELSE f[x]]

Drop(f, k) == [x \in (DOMAIN f) \ {k} |-> f[x]]

RECURSIVE SeqWithout(_, _)
SeqWithout(s, x) ==
    IF s = <<>> THEN <<>>
    ELSE IF Head(s) = x THEN Tail(s)
    ELSE <<Head(s)>> \o SeqWithout(Tail(s), x)

SeqRange(s) == {s[i] : i \in DOMAIN s}

IndexOf(s, x) == CHOOSE i \in DOMAIN s : s[i] = x /\ \A j \in 1..(i - 1) : s[j] # x

Max(a, b) == IF a >= b THEN a ELSE b

\* The floats a mouse drag accumulates are kept as whole numbers of
\* 1/FloatUnit: the two divisors of a drag, 90 and 300, both divide 900.
FloatUnit == 900

Float(n) == n * FloatUnit

\* int(x) of a float: truncation towards zero.
IntOf(x) == IF x >= 0 THEN x \div FloatUnit ELSE 0 - ((0 - x) \div FloatUnit)

Orders(S) == {q \in [1..Cardinality(S) -> S] : SeqRange(q) = S}

(***************************************************************************)
(* The program state handled by the functional definitions below is the    *)
(* record [scene, heap, op]:                                               *)
(*   scene.ob[o]     = [origin, type, mods, arrays]    a Blender object    *)
(*   scene.empties   = sequence of [co, alive]         center empties      *)
(*   scene.cursor, scene.selection, scene.mode         3D cursor, median   *)
(*                     of the edit-mode selection, context mode            *)
(*   heap.lists[l]   = [ob, value]       an ObjectRadialArrays instance    *)
(*   heap.inst[i]    = [ob, name, sib, ce]  a RadialArray instance with    *)
(*                     its cached center empty reference                   *)
(*   op              = the modal operator instance                         *)
(***************************************************************************)
Failed(st) == st.op.state = "ERROR"

Raise(st) == [st EXCEPT !.op.state = "ERROR"]

(***************************************************************************)
(* Matrices.                                                               *)
(***************************************************************************)
Mx(rot, tr) == [rot |-> rot, tr |-> tr, tp |-> FALSE]

Transposed(m) ==
    IF m.rot = "I" /\ m.tr = 0 THEN m ELSE [m EXCEPT !.tp = ~m.tp]

\* What reading the matrix property gives after writing np.array(m).ravel():
\* the host holds the sixteen floats column by column.
StoredFromRavel(m) == Transposed(m)

matrix_world_inverted(st, o) == Mx("I", 0 - st.scene.ob[o].origin)

(***************************************************************************)
(* utils/object.py                                                         *)
(***************************************************************************)
set_origin(st, o, co) ==
    IF Failed(st) THEN st ELSE [st EXCEPT !.scene.ob[o].origin = co]

(***************************************************************************)
(* radial_objects/radial_array_object.py and radial_array_builder.py.      *)
(* An instance i is an index of heap.inst; its scene data is               *)
(* scene.ob[o].arrays[name]:                                               *)
(*   props = the property group, am = the array modifier's fields,         *)
(*   oe = the offset empty's rotation, nodes = the nodes modifier's inputs.*)
(* Modifiers, node groups and offset empties are looked up by name; the    *)
(* center empty reference is the one the instance holds.                   *)
(***************************************************************************)
Inst(st, i) == st.heap.inst[i]

ObOf(st, i) == st.scene.ob[Inst(st, i).ob]

HasArray(st, i) == Inst(st, i).name \in DOMAIN ObOf(st, i).arrays

ArrayOf(st, i) == ObOf(st, i).arrays[Inst(st, i).name]

SetArray(st, i, a) ==
    [st EXCEPT !.scene.ob[Inst(st, i).ob].arrays[Inst(st, i).name] = a]

\* A held center empty reference whose object was removed from the scene.
CeDead(st, i) ==
    /\ Inst(st, i).ce # None
    /\ ~st.scene.empties[Inst(st, i).ce[1]].alive

ArrayNames == <<"RadialArray", "RadialArray.001", "RadialArray.002">>

NodesNames == <<"RadialArrayOffset", "RadialArrayOffset.001", "RadialArrayOffset.002">>

NodesNameOf(name) == NodesNames[IndexOf(ArrayNames, name)]

ModIndex(mods, name) ==
    IF \E k \in DOMAIN mods : mods[k].name = name
    THEN (CHOOSE k \in DOMAIN mods : mods[k].name = name) - 1
    ELSE 0 - 1

RemoveMod(mods, name) == SelectSeq(mods, LAMBDA m : m.name # name)

\* ob.modifiers.move(from_index, to_index), indices counted from 0.
MoveMod(mods, from, to) ==
    LET m == mods[from + 1]
        rest == [k \in 1..(Len(mods) - 1) |-> IF k <= from THEN mods[k] ELSE mods[k + 1]]
    IN  SubSeq(rest, 1, to) \o <<m>> \o SubSeq(rest, to + 1, Len(rest))

\* The index a modifier at current_index gets when it is moved next to the
\* modifier at reference_index.
get_modifier_index(current_index, reference_index, position) ==
    IF position = "AFTER"
    THEN IF current_index > reference_index THEN reference_index + 1 ELSE reference_index
    ELSE IF current_index > reference_index THEN reference_index ELSE reference_index - 1

spin_vec_object(st, i) ==
    LET p == ArrayOf(st, i).props
    IN  [rot |-> p.spin_orientation_matrix_object.rot,
         tp |-> p.spin_orientation_matrix_object.tp,
         axis |-> p.spin_axis]

ZeroVec == [dir |-> [rot |-> "I", tp |-> FALSE, axis |-> "-"], len |-> 0]

Scaled(dir, len) == IF len = 0 THEN ZeroVec ELSE [dir |-> dir, len |-> len]

co_world(st, i) ==
    IF Inst(st, i).ce # None
    THEN st.scene.empties[Inst(st, i).ce[1]].co
    ELSE ObOf(st, i).origin

_get_spin_orientation_matrix(st, i, spin_orientation) ==
    LET o == ObOf(st, i).origin
    IN  CASE spin_orientation = "GLOBAL" -> Mx("I", 0)
          [] spin_orientation = "LOCAL" -> Mx("I", o)
          [] spin_orientation = "VIEW" -> Mx("V", 0)
          [] spin_orientation = "NORMAL" ->
                IF st.scene.mode = "EDIT_MESH" /\ ~st.scene.selected
                THEN Mx("I", o) ELSE Mx("N", 0)

\* a @ b for matrices that are a rotation followed by a translation
MatMul(a, b) == [rot |-> IF a.rot = "I" THEN b.rot ELSE a.rot,
                 tr |-> a.tr + b.tr, tp |-> FALSE]

RadialArrayProps_update(st, i, a) ==
    IF Failed(st) THEN st
    ELSE IF ~HasArray(st, i) THEN Raise(st)
    ELSE LET mx == MatMul(matrix_world_inverted(st, Inst(st, i).ob),
                          _get_spin_orientation_matrix(st, i, a.spin_orientation))
             p == ArrayOf(st, i).props
         IN  SetArray(st, i, [ArrayOf(st, i) EXCEPT !.props =
                [p EXCEPT !.spin_orientation = a.spin_orientation,
                          !.spin_orientation_matrix_object = StoredFromRavel(Transposed(mx)),
                          !.spin_axis = a.spin_axis,
                          !.count = a.count,
                          !.radius_offset = a.radius_offset,
                          !.start_angle = a.start_angle,
                          !.end_angle = a.end_angle,
                          !.height_offset = a.height_offset]])

(***************************************************************************)
(* Center empties.  A slot of scene.empties is reused once no instance     *)
(* holds a reference to it.                                                *)
(***************************************************************************)
FreeSlot(st) ==
    LET n == Len(st.scene.empties)
        free == {k \in 1..n : /\ ~st.scene.empties[k].alive
                              /\ \A j \in DOMAIN st.heap.inst : st.heap.inst[j].ce # Some(k)}
    IN  IF free = {} THEN n + 1 ELSE CHOOSE k \in free : \A m \in free : k <= m

new_center_empty(st, i) ==
    LET k == FreeSlot(st)
        e == [co |-> ObOf(st, i).origin, alive |-> TRUE]
        s1 == [st EXCEPT !.scene.empties =
                  IF k > Len(@) THEN Append(@, e) ELSE [@ EXCEPT ![k] = e]]
        s2 == SetArray(s1, i, [ArrayOf(s1, i) EXCEPT !.props.center_empty = Some(k)])
    IN  [s2 EXCEPT !.heap.inst[i].ce = Some(k)]

RadialArrayCenterEmpty_ensure(st, i) ==
    IF Failed(st) THEN st
    ELSE IF Inst(st, i).ce # None THEN st
    ELSE IF ~HasArray(st, i) THEN Raise(st)
    ELSE new_center_empty(st, i)

\* bpy.data.objects.remove(empty, do_unlink=True): every pointer property
\* that named the empty is cleared by the host.
UnlinkEmpty(st, k) ==
    [st EXCEPT !.scene.empties[k] = [co |-> 0, alive |-> FALSE],
               !.scene.ob = [o \in DOMAIN @ |-> [@[o] EXCEPT !.arrays =
                    [n \in DOMAIN @ |-> IF @[n].props.center_empty = Some(k)
                                        THEN [@[n] EXCEPT !.props.center_empty = None]
                                        ELSE @[n]]]]]

RadialArrayCenterEmpty_remove(st, i) ==
    IF Failed(st) THEN st
    ELSE IF Inst(st, i).ce = None THEN st
    ELSE IF CeDead(st, i) THEN Raise(st)
    ELSE LET s1 == UnlinkEmpty(st, Inst(st, i).ce[1])
             s2 == [s1 EXCEPT !.heap.inst[i].ce = None]
         IN  IF HasArray(s2, i)
             THEN SetArray(s2, i, [ArrayOf(s2, i) EXCEPT !.props.center_empty = None])
             ELSE s2

(***************************************************************************)
(* refresh: nodes modifier, array modifier, offset empty.                  *)
(***************************************************************************)
\* bpy.data.node_groups: the node group made for the nodes modifier `nm` of
\* object o.  Groups are told apart by the modifier they were made for.
NodeGroupOf(o, nm) == [ob |-> o, mod |-> nm]

new_nodes_mod(st, i) ==
    LET o == Inst(st, i).ob
        nm == NodesNameOf(Inst(st, i).name)
        mods == Append(st.scene.ob[o].mods, [name |-> nm, type |-> "NODES"])
        cur == Len(mods) - 1
        to == get_modifier_index(cur, ModIndex(mods, Inst(st, i).name), "BEFORE")
    IN  [st EXCEPT !.scene.ob[o].mods = MoveMod(mods, cur, to),
                   !.scene.node_groups = @ \cup {NodeGroupOf(o, nm)}]

RadialArrayNodesMod_remove(st, i) ==
    IF ArrayOf(st, i).nodes = None THEN st
    ELSE LET s1 == SetArray(st, i, [ArrayOf(st, i) EXCEPT !.nodes = None])
         IN  [s1 EXCEPT !.scene.ob[Inst(st, i).ob].mods =
                            RemoveMod(@, NodesNameOf(Inst(st, i).name)),
                        !.scene.node_groups =
                            @ \ {NodeGroupOf(Inst(st, i).ob, NodesNameOf(Inst(st, i).name))}]

RadialArrayNodesMod_refresh_eager(st, i) ==
    IF ArrayOf(st, i).nodes = None THEN new_nodes_mod(st, i) ELSE st

RadialArrayNodesMod_refresh(st, i) ==
    LET p == ArrayOf(st, i).props
        pivot == IF Inst(st, i).ce # None THEN co_world(st, i) - ObOf(st, i).origin ELSE 0
        inputs == [rotation |-> p.start_angle, translation |-> p.radius_offset, pivot |-> pivot]
    IN  IF p.start_angle # 0 \/ p.radius_offset # 0
        THEN LET s1 == IF ArrayOf(st, i).nodes = None THEN new_nodes_mod(st, i) ELSE st
             IN  SetArray(s1, i, [ArrayOf(s1, i) EXCEPT !.nodes = Some(inputs)])
        ELSE RadialArrayNodesMod_remove(st, i)

RadialArrayArrayMod_refresh(st, i) ==
    LET p == ArrayOf(st, i).props
    IN  SetArray(st, i, [ArrayOf(st, i) EXCEPT !.am =
            [count |-> p.count,
             constant_offset_displace |-> Scaled(spin_vec_object(st, i), p.height_offset)]])

(***************************************************************************)
(* Angles (micro-radians) and quotients.                                   *)
(***************************************************************************)
\* radians(360) = 6.283185...
R360 == 6283185

\* round(x, 5) of an angle, in units of ten micro-radians
Round5(x) == IF x >= 0 THEN (x + 5) \div 10 ELSE 0 - ((5 - x) \div 10)

Abs(x) == IF x < 0 THEN 0 - x ELSE x

RECURSIVE Gcd(_, _)
Gcd(a, b) == IF b = 0 THEN a ELSE Gcd(b, a % b)

Rat(n, d) ==
    LET g == Gcd(Abs(n), Abs(d))
    IN  IF n = 0 THEN <<0, 1>>
        ELSE IF d < 0 THEN <<(0 - n) \div g, (0 - d) \div g>>
        ELSE <<n \div g, d \div g>>

RatSub(a, b) == Rat(a[1] * b[2] - b[1] * a[2], a[2] * b[2])

\* The angle between two successive duplicates of a radial array.
spin_angle(props) ==
    LET full_circle == /\ Round5(props.end_angle) = Round5(R360)
                       /\ props.start_angle = 0
                       /\ props.height_offset = 0
    IN  IF full_circle
        THEN RatSub(Rat(props.end_angle, props.count), Rat(props.start_angle, props.count - 1))
        ELSE RatSub(Rat(props.end_angle, props.count - 1),
                    Rat(props.start_angle, props.count - 1))

RadialArrayOffsetEmpty_refresh(st, i) ==
    LET p == ArrayOf(st, i).props
    IN  IF p.count > 1
        THEN SetArray(st, i, [ArrayOf(st, i) EXCEPT !.oe =
                [angle |-> spin_angle(p), axis |-> spin_vec_object(st, i),
                 pivot |-> co_world(st, i)]])
        ELSE st

RadialArray_refresh(st, i) ==
    IF Failed(st) THEN st
    ELSE IF ~HasArray(st, i) \/ CeDead(st, i) THEN Raise(st)
    ELSE LET s1 == IF ObOf(st, i).type = "MESH" THEN RadialArrayNodesMod_refresh(st, i) ELSE st
         IN  RadialArrayOffsetEmpty_refresh(RadialArrayArrayMod_refresh(s1, i), i)

(***************************************************************************)
(* ObjectRadialArrays: a list l is an index of heap.lists.                 *)
(***************************************************************************)
RECURSIVE RefreshEach(_, _)
RefreshEach(st, is) ==
    IF is = <<>> \/ Failed(st) THEN st ELSE RefreshEach(RadialArray_refresh(st, Head(is)), Tail(is))

refresh_all(st, l) ==
    IF Failed(st) THEN st ELSE RefreshEach(st, st.heap.lists[l].value)

RECURSIVE EnsureEach(_, _)
EnsureEach(st, is) ==
    IF is = <<>> \/ Failed(st) THEN st
    ELSE EnsureEach(RadialArrayCenterEmpty_ensure(st, Head(is)), Tail(is))

ensure_center_empties_of_child_radial_arrays(st, l) ==
    LET v == st.heap.lists[l].value
    IN  IF Failed(st) \/ v = <<>> THEN st ELSE EnsureEach(st, SubSeq(v, 1, Len(v) - 1))

remove_center_empty_of_top_radial_array_in_place(st, l) ==
    LET v == st.heap.lists[l].value
        i == v[Len(v)]
    IN  IF Failed(st) \/ v = <<>> THEN st
        ELSE IF Inst(st, i).ce = None THEN st
        ELSE IF CeDead(st, i) THEN Raise(st)
        ELSE refresh_all(
                ensure_center_empties_of_child_radial_arrays(
                    RadialArrayCenterEmpty_remove(st, i), l),
                l)

\* The center empty of the top array is removed and the origin of the object
\* is put where the empty was.
remove_center_empty_of_top_radial_array(st, l) ==
    LET v == st.heap.lists[l].value
        i == v[Len(v)]
    IN  IF Failed(st) \/ v = <<>> THEN st
        ELSE IF Inst(st, i).ce = None THEN st
        ELSE IF CeDead(st, i) THEN Raise(st)
        ELSE refresh_all(
                set_origin(
                    ensure_center_empties_of_child_radial_arrays(
                        RadialArrayCenterEmpty_remove(st, i), l),
                    Inst(st, i).ob, st.scene.empties[Inst(st, i).ce[1]].co),
                l)

(***************************************************************************)
(* RadialArrayPivotPoint.  A point is [kind, sym, co]: kind "SYM" for one  *)
(* of the symbols, "VEC" for a coordinate, "NONE" for None.                *)
(***************************************************************************)
NoPoint == [kind |-> "NONE", sym |-> "", co |-> 0]

Sym(s) == [kind |-> "SYM", sym |-> s, co |-> 0]

Vec(c) == [kind |-> "VEC", sym |-> "", co |-> c]

\* The symbols whose resolution dereferences a missing or removed object.
PointUnresolvable(st, i, point) ==
    /\ point.kind = "SYM"
    /\ point.sym = "CENTER_EMPTY"
    /\ (Inst(st, i).ce = None \/ CeDead(st, i))

_get_point_co_world(st, i, point) ==
    IF point.kind = "VEC" THEN point.co
    ELSE CASE point.sym = "ORIGIN" -> ObOf(st, i).origin
           [] point.sym = "CURSOR" -> st.scene.cursor
           [] point.sym = "MESH_SELECTION" -> st.scene.selection
           [] point.sym = "ACTIVE_OBJECT" -> st.scene.ob[st.scene.active].origin
           [] point.sym = "CENTER_EMPTY" -> st.scene.empties[Inst(st, i).ce[1]].co

_set_top_radial_array_pivot_point(st, i, point_co) ==
    refresh_all(
        set_origin(
            ensure_center_empties_of_child_radial_arrays(
                RadialArrayCenterEmpty_remove(st, i), Inst(st, i).sib),
            Inst(st, i).ob, point_co),
        Inst(st, i).sib)

\* center_empty.matrix_world.translation = point_co
SetCenterEmptyTranslation(st, i, point_co) ==
    IF Failed(st) THEN st
    ELSE IF CeDead(st, i) THEN Raise(st)
    ELSE [st EXCEPT !.scene.empties[Inst(st, i).ce[1]].co = point_co]

_set_child_radial_array_pivot_point(st, i, point_co) ==
    RadialArray_refresh(
        SetCenterEmptyTranslation(RadialArrayCenterEmpty_ensure(st, i), i, point_co), i)

RadialArrayPivotPoint_set(st, i, point) ==
    IF Failed(st) THEN st
    ELSE IF point = Sym("ORIGIN")
    THEN RadialArray_refresh(RadialArrayCenterEmpty_remove(st, i), i)
    ELSE IF PointUnresolvable(st, i, point) THEN Raise(st)
    ELSE LET point_co == _get_point_co_world(st, i, point)
             v == st.heap.lists[Inst(st, i).sib].value
         IN  IF v # <<>>
             THEN IF v[Len(v)] = i
                  THEN _set_top_radial_array_pivot_point(st, i, point_co)
                  ELSE _set_child_radial_array_pivot_point(st, i, point_co)
             ELSE set_origin(st, Inst(st, i).ob, point_co)

RadialArray_modify(st, i, a, pivot_point) ==
    LET s1 == RadialArrayProps_update(st, i, a)
    IN  IF pivot_point # NoPoint
        THEN RadialArrayPivotPoint_set(s1, i, pivot_point)
        ELSE RadialArray_refresh(s1, i)

(***************************************************************************)
(* Building RadialArray instances (radial_array_builder.py).  The scene    *)
(* data of an array is kept whole, so building from a modifier repairs     *)
(* nothing here.                                                           *)
(***************************************************************************)
IsRadialArrayMod(m) == m.type = "ARRAY" /\ m.name \in SeqRange(ArrayNames)

_get_radial_arrays(st, o) ==
    LET ms == SelectSeq(st.scene.ob[o].mods, IsRadialArrayMod)
    IN  [k \in 1..Len(ms) |-> ms[k].name]

\* ObjectRadialArrays(context, ob): the new list is the last of heap.lists.
ObjectRadialArrays(st, o) ==
    LET names == _get_radial_arrays(st, o)
        l == Len(st.heap.lists) + 1
        base == Len(st.heap.inst)
        made == [k \in 1..Len(names) |->
                    [ob |-> o, name |-> names[k], sib |-> l,
                     ce |-> st.scene.ob[o].arrays[names[k]].props.center_empty]]
    IN  [st EXCEPT !.heap.inst = @ \o made,
                   !.heap.lists = Append(@, [ob |-> o,
                        value |-> [k \in 1..Len(names) |-> base + k]])]

LastList(st) == Len(st.heap.lists)

TopOfFirst(st, l) ==
    LET v == st.heap.lists[l].value IN IF v = <<>> THEN None ELSE Some(v[1])

\* ObjectRadialArrays.__getitem__(-1): the last instance, if any
TopOf(st, l) ==
    LET v == st.heap.lists[l].value IN IF v = <<>> THEN None ELSE Some(v[Len(v)])

\* The name ob.modifiers.new(name="RadialArray") gives the modifier.
UniqueName(st, o) ==
    LET used == {st.scene.ob[o].mods[k].name : k \in DOMAIN st.scene.ob[o].mods}
        k == CHOOSE j \in DOMAIN ArrayNames :
                /\ ArrayNames[j] \notin used
                /\ \A m \in 1..(j - 1) : ArrayNames[m] \in used
    IN  ArrayNames[k]

NameAvailable(st, o) ==
    \E j \in DOMAIN ArrayNames :
        \A k \in DOMAIN st.scene.ob[o].mods : st.scene.ob[o].mods[k].name # ArrayNames[j]

LastIndexOfType(mods, types) ==
    LET ks == {k \in DOMAIN mods : mods[k].type \in types}
    IN  IF ks = {} THEN 0 - 1 ELSE (CHOOSE k \in ks : \A j \in ks : j <= k) - 1

\* A creation that leaves the new modifier where the host put it, last.
sort_array_mod_unsorted(mods, name) == mods

\* The stack after adding the modifier `name` at the end and sorting it:
\* after the last other array, else the last screw, else the last mirror,
\* else first.
sort_array_mod(mods, name) ==
    LET cur == ModIndex(mods, name)
        others == RemoveMod(mods, name)
        ref(types) == ModIndex(mods, others[LastIndexOfType(others, types) + 1].name)
        to == IF LastIndexOfType(others, {"ARRAY"}) >= 0
              THEN get_modifier_index(cur, ref({"ARRAY"}), "AFTER")
              ELSE IF LastIndexOfType(others, {"SCREW"}) >= 0
              THEN get_modifier_index(cur, ref({"SCREW"}), "AFTER")
              ELSE IF LastIndexOfType(others, {"MIRROR"}) >= 0
              THEN get_modifier_index(cur, ref({"MIRROR"}), "AFTER")
              ELSE 0
    IN  MoveMod(mods, cur, to)

new_props(st, o) ==
    [spin_orientation |-> "LOCAL",
     spin_orientation_matrix_object |-> StoredFromRavel(matrix_world_inverted(st, o)),
     spin_axis |-> "Z", count |-> 6, radius_offset |-> 0, start_angle |-> 0,
     end_angle |-> R360, height_offset |-> 0, center_empty |-> None]

IdentityEmpty == [angle |-> <<0, 1>>, axis |-> ZeroVec.dir, pivot |-> 0]

\* RadialArray.new(siblings) followed by siblings.value.append(...)
ObjectRadialArrays_new(st, l) ==
    LET o == st.heap.lists[l].ob
        name == UniqueName(st, o)
        mods == sort_array_mod(Append(st.scene.ob[o].mods,
                                      [name |-> name, type |-> "ARRAY"]), name)
        a == [props |-> new_props(st, o), oe |-> IdentityEmpty,
              am |-> [count |-> 2, constant_offset_displace |-> ZeroVec],
              nodes |-> None]
        i == Len(st.heap.inst) + 1
    IN  [st EXCEPT !.scene.ob[o].mods = mods,
                   !.scene.ob[o].arrays = Put(@, name, a),
                   !.heap.inst = Append(@, [ob |-> o, name |-> name, sib |-> l, ce |-> None]),
                   !.heap.lists[l].value = Append(@, i)]

NewestInst(st) == Len(st.heap.inst)

(***************************************************************************)
(* apply and remove.                                                       *)
(***************************************************************************)
WarnNotFirst == "Applied modifier was not first, result may not be as expected"

\* bpy.ops.object.modifier_apply: the modifier leaves the stack and is
\* baked into the object data.
\* bpy.ops.object.modifier_apply: the modifier leaves the stack and its
\* effect is in the object data; data the modifier used (a node group)
\* stays in the file.
modifier_apply(st, o, name) ==
    [st EXCEPT !.scene.ob[o].mods = RemoveMod(@, name),
               !.scene.ob[o].applied = Append(@, name)]

RadialArrayNodesMod_apply(st, i) ==
    IF ArrayOf(st, i).nodes = None THEN st
    ELSE modifier_apply(SetArray(st, i, [ArrayOf(st, i) EXCEPT !.nodes = None]),
                        Inst(st, i).ob, NodesNameOf(Inst(st, i).name))

RadialArrayArrayMod_apply_message(st, i) ==
    IF ModIndex(ObOf(st, i).mods, Inst(st, i).name) > 0 THEN WarnNotFirst ELSE ""

RadialArrayArrayMod_apply(st, i) == modifier_apply(st, Inst(st, i).ob, Inst(st, i).name)

\* The part of apply()/remove() after the modifiers are gone: properties,
\* offset empty, the siblings list, the new top array's center empty.
Discard(st, i) ==
    LET l == Inst(st, i).sib
        s1 == [st EXCEPT !.scene.ob[Inst(st, i).ob].arrays = Drop(@, Inst(st, i).name),
                         !.heap.lists[l].value = SeqWithout(@, i)]
    IN  remove_center_empty_of_top_radial_array(s1, l)

\* The message apply() returns.
RadialArray_apply_result(st, i) ==
    RadialArrayArrayMod_apply_message(
        RadialArrayNodesMod_apply(RadialArrayCenterEmpty_remove(st, i), i), i)

RadialArray_apply(st, i) ==
    IF Failed(st) THEN st
    ELSE IF ~HasArray(st, i) \/ CeDead(st, i) THEN Raise(st)
    ELSE Discard(RadialArrayArrayMod_apply(
            RadialArrayNodesMod_apply(RadialArrayCenterEmpty_remove(st, i), i), i), i)

RadialArray_remove(st, i) ==
    IF Failed(st) THEN st
    ELSE IF ~HasArray(st, i) \/ CeDead(st, i) THEN Raise(st)
    ELSE LET s1 == RadialArrayNodesMod_remove(RadialArrayCenterEmpty_remove(st, i), i)
             s2 == [s1 EXCEPT !.scene.ob[Inst(st, i).ob].mods = RemoveMod(@, Inst(st, i).name)]
         IN  Discard(s2, i)

(***************************************************************************)
(* operators/radial_array/radial_array_modal.py.  The operator instance is *)
(* the record op:                                                          *)
(*   kind, state                       which modal, and where it is        *)
(*   new, from_button, event           how it is invoked                   *)
(*   spin_orientation .. pivot_point   the operator properties             *)
(*   master_list, master, slaves       ObjectRadialArrays / RadialArray    *)
(*   new_radial_arrays, modified       instances created / touched         *)
(*   initial_attrs, last_set           the two dictionaries, keyed by the  *)
(*                                     key the code uses                   *)
(*   typed_string, count_before_typing the typed-digits buffer             *)
(*   report                            messages given to self.report       *)
(***************************************************************************)
OpParams(o) ==
    [spin_orientation |-> o.spin_orientation, spin_axis |-> o.spin_axis,
     count |-> o.count, radius_offset |-> o.radius_offset,
     start_angle |-> o.start_angle, end_angle |-> o.end_angle,
     height_offset |-> o.height_offset]

Get(d, k) == IF k \in DOMAIN d THEN Some(d[k]) ELSE None

store_existing_radial_array_attrs(st, i) ==
    LET name == Inst(st, i).name
        p == ArrayOf(st, i).props
    IN  IF Failed(st) \/ name \in DOMAIN st.op.initial_attrs THEN st
        ELSE IF ~HasArray(st, i) \/ CeDead(st, i) THEN Raise(st)
        ELSE [st EXCEPT !.op.initial_attrs = Put(@, name,
                [full |-> TRUE,
                 spin_orientation |-> p.spin_orientation,
                 spin_orientation_matrix_object |-> p.spin_orientation_matrix_object,
                 spin_axis |-> p.spin_axis,
                 count |-> p.count,
                 radius_offset |-> p.radius_offset,
                 start_angle |-> p.start_angle,
                 end_angle |-> p.end_angle,
                 height_offset |-> p.height_offset,
                 pivot_point |-> IF Inst(st, i).ce # None THEN Sym("CENTER_EMPTY")
                                 ELSE Sym("ORIGIN"),
                 pivot_point_co_world |-> co_world(st, i)])]

\* The entry modify_all_radial_arrays stores for a newly created array.
FirstUsedAttrs(pivot_point, co) ==
    [full |-> FALSE, spin_orientation |-> "", spin_orientation_matrix_object |-> Mx("I", 0),
     spin_axis |-> "", count |-> 0, radius_offset |-> 0, start_angle |-> 0,
     end_angle |-> 0, height_offset |-> 0,
     pivot_point |-> pivot_point, pivot_point_co_world |-> co]

set_operator_properties_from_master_radial_array(st) ==
    LET i == st.op.master
        p == ArrayOf(st, i).props
        last == Get(st.op.last_set, Inst(st, i).name)
    IN  IF Failed(st) THEN st
        ELSE IF ~HasArray(st, i) THEN Raise(st)
        ELSE [st EXCEPT !.op.pivot_point = IF last # None THEN last[1]
                                           ELSE IF Inst(st, i).ce # None THEN "CENTER_EMPTY"
                                           ELSE "ORIGIN",
                        !.op.spin_orientation = p.spin_orientation,
                        !.op.spin_axis = p.spin_axis,
                        !.op.count = p.count,
                        !.op.count_float = Float(p.count),
                        !.op.radius_offset = p.radius_offset,
                        !.op.radius_offset_float = p.radius_offset,
                        !.op.start_angle = p.start_angle,
                        !.op.end_angle = p.end_angle,
                        !.op.height_offset = p.height_offset]

set_operator_properties_from_event_and_context(st) ==
    LET s1 == IF st.scene.mode = "EDIT_MESH" /\ st.scene.selected
              THEN [st EXCEPT !.op.spin_orientation = "NORMAL",
                              !.op.pivot_point = "MESH_SELECTION"]
              ELSE st
    IN  IF ~s1.op.from_button THEN s1
        ELSE IF s1.op.event = "CTRL" THEN [s1 EXCEPT !.op.pivot_point = "CURSOR"]
        ELSE IF s1.op.event = "SHIFT" THEN [s1 EXCEPT !.op.pivot_point = "ACTIVE_OBJECT"]
        ELSE s1

get_pivot_point(st, i) ==
    LET last == Get(st.op.last_set, Inst(st, i).name)
        attrs == Get(st.op.initial_attrs, Inst(st, i).name)
    IN  IF last = Some(st.op.pivot_point) THEN NoPoint
        ELSE IF /\ st.op.pivot_point = "ORIGIN"
                /\ attrs # None
                /\ attrs[1].pivot_point = Sym("ORIGIN")
        THEN Vec(attrs[1].pivot_point_co_world)
        ELSE IF /\ st.op.pivot_point = "CENTER_EMPTY"
                /\ attrs # None
                /\ attrs[1].pivot_point = Sym("CENTER_EMPTY")
        THEN Vec(attrs[1].pivot_point_co_world)
        ELSE Sym(st.op.pivot_point)

\* The bookkeeping of modify_all_radial_arrays after radial_array.modify().
NoteModified(st, i, pivot_point) ==
    LET name == Inst(st, i).name
    IN  IF Failed(st) THEN st
        ELSE IF name \notin DOMAIN st.op.initial_attrs /\ CeDead(st, i) THEN Raise(st)
        ELSE [st EXCEPT !.op.modified = @ \cup {i},
                        !.op.last_set = Put(@, name, st.op.pivot_point),
                        !.op.initial_attrs =
                            IF name \in DOMAIN @ THEN @
                            ELSE Put(@, name, FirstUsedAttrs(pivot_point, co_world(st, i)))]

\* One turn of the loop of modify_all_radial_arrays.
ModifyOne(st, i) ==
    NoteModified(RadialArray_modify(st, i, OpParams(st.op), get_pivot_point(st, i)),
                 i, get_pivot_point(st, i))

RECURSIVE ModifyEach(_, _)
ModifyEach(st, is) ==
    IF is = <<>> \/ Failed(st) THEN st ELSE ModifyEach(ModifyOne(st, Head(is)), Tail(is))

\* A modify that reaches the master alone.
modify_master_radial_array(st) ==
    IF Failed(st) THEN st ELSE ModifyEach(st, <<st.op.master>>)

modify_all_radial_arrays(st) ==
    IF Failed(st) THEN st ELSE ModifyEach(st, <<st.op.master>> \o st.op.slaves)

\* radial_arrays.new() on the list made last
NewInLastList(st) == ObjectRadialArrays_new(st, LastList(st))

NoteNewSlave(st) ==
    [st EXCEPT !.op.new_radial_arrays = Append(@, NewestInst(st)),
               !.op.slaves = Append(@, NewestInst(st))]

build_new_slave(st, slave_ob) == NoteNewSlave(NewInLastList(ObjectRadialArrays(st, slave_ob)))

RECURSIVE BuildNewSlaves(_, _)
BuildNewSlaves(st, obs) ==
    IF obs = <<>> THEN st ELSE BuildNewSlaves(build_new_slave(st, Head(obs)), Tail(obs))

NoteNewMaster(st) ==
    [st EXCEPT !.op.master = NewestInst(st),
               !.op.new_radial_arrays = Append(@, NewestInst(st))]

\* An add key that makes a new array on the master only.
build_new_master_radial_array(st) ==
    NoteNewMaster(ObjectRadialArrays_new(st, st.op.master_list))

build_new_radial_arrays(st) ==
    BuildNewSlaves(NoteNewMaster(ObjectRadialArrays_new(st, st.op.master_list)),
                   st.op.slave_obs)

NoteNew(st) == [st EXCEPT !.op.new_radial_arrays = Append(@, NewestInst(st))]

TopOrNewUnrecorded(st) ==
    IF TopOf(st, LastList(st)) = None THEN NewInLastList(st) ELSE st

\* "if slave_radial_array is None: slave_radial_array = radial_arrays.new()"
TopOrNew(st) ==
    IF TopOf(st, LastList(st)) = None THEN NoteNew(NewInLastList(st)) ELSE st

NoteSlave(st) ==
    store_existing_radial_array_attrs(
        [st EXCEPT !.op.slaves = Append(@, TopOf(st, LastList(st))[1])],
        TopOf(st, LastList(st))[1])

build_existing_slave(st, slave_ob) == NoteSlave(TopOrNew(ObjectRadialArrays(st, slave_ob)))

RECURSIVE BuildExistingSlaves(_, _)
BuildExistingSlaves(st, obs) ==
    IF obs = <<>> THEN st
    ELSE BuildExistingSlaves(build_existing_slave(st, Head(obs)), Tail(obs))

\* Defined where the master object has a radial array (success = True).
build_radial_arrays_from_modifiers(st) ==
    LET i == TopOf(st, st.op.master_list)[1]
        s1 == store_existing_radial_array_attrs([st EXCEPT !.op.master = i], i)
    IN  BuildExistingSlaves(s1, st.op.slave_obs)

build_radial_arrays_on_init(st) ==
    LET s1 == ObjectRadialArrays(st, st.op.master_ob)
        s2 == [s1 EXCEPT !.op.master_list = LastList(s1)]
    IN  IF s2.op.new \/ TopOf(s2, s2.op.master_list) = None
        THEN build_new_radial_arrays(s2)
        ELSE build_radial_arrays_from_modifiers(s2)

Running(st) == IF Failed(st) THEN st ELSE [st EXCEPT !.op.state = "RUNNING"]

collect_objects(st) ==
    [st EXCEPT !.op.master_ob = st.scene.active,
               !.op.slave_obs = st.scene.selected_slaves,
               !.op.master_ob_initial_origin = st.scene.ob[st.scene.active].origin]

\* "if self.master_radial_array not in self.new_radial_arrays: ..."
SetPropertiesOnInvoke(st) ==
    set_operator_properties_from_event_and_context(
        IF st.op.master \notin SeqRange(st.op.new_radial_arrays)
        THEN set_operator_properties_from_master_radial_array(st)
        ELSE st)

invoke(st) ==
    Running(modify_all_radial_arrays(
        SetPropertiesOnInvoke(build_radial_arrays_on_init(collect_objects(st)))))

\* An integer property that takes every value assigned to it.
IntPropUnbounded(v) == v

\* Assigning an integer operator property declared with min=1.
IntPropMin1(v) == Max(1, v)

RECURSIVE ToInt(_)
ToInt(digits) ==
    IF digits = <<>> THEN 0
    ELSE 10 * ToInt(SubSeq(digits, 1, Len(digits) - 1)) + digits[Len(digits)]

cancel_typing(st) == [st EXCEPT !.op.typed_string = None]

wheel_up(st) ==
    modify_all_radial_arrays(
        [cancel_typing(st) EXCEPT !.op.count = IntPropMin1(st.op.count + 1)])

wheel_down(st) ==
    modify_all_radial_arrays(
        [cancel_typing(st) EXCEPT !.op.count = IntPropMin1(Max(1, st.op.count - 1))])

\* The operator fields after a digit key; a leading 0 is not taken.
DigitTyped(st, digit) ==
    IF st.op.typed_string = None
    THEN [st EXCEPT !.op.count_before_typing = st.op.count,
                    !.op.count = IntPropMin1(digit),
                    !.op.typed_string = Some(<<digit>>)]
    ELSE [st EXCEPT !.op.typed_string = Some(Append(@[1], digit)),
                    !.op.count = IntPropMin1(ToInt(Append(st.op.typed_string[1], digit)))]

digit_pressed(st, digit) ==
    IF st.op.typed_string = None /\ digit = 0 THEN st
    ELSE modify_all_radial_arrays(DigitTyped(st, digit))

\* A backspace that takes the count back to the value before typing as soon
\* as the buffer is emptied.
BackSpacedReverting(st) ==
    IF Len(st.op.typed_string[1]) > 1
    THEN [st EXCEPT !.op.typed_string = Some(SubSeq(@[1], 1, Len(@[1]) - 1)),
                    !.op.count = IntPropMin1(ToInt(SubSeq(st.op.typed_string[1], 1,
                                                          Len(st.op.typed_string[1]) - 1)))]
    ELSE [st EXCEPT !.op.count = IntPropMin1(st.op.count_before_typing),
                    !.op.typed_string = None]

\* The operator fields after a backspace while digits are being typed.
BackSpaced(st) ==
    IF st.op.typed_string[1] # <<>>
    THEN LET typed == SubSeq(st.op.typed_string[1], 1, Len(st.op.typed_string[1]) - 1)
         IN  [st EXCEPT !.op.typed_string = Some(typed),
                        !.op.count = IntPropMin1(IF typed # <<>> THEN ToInt(typed) ELSE 1)]
    ELSE [st EXCEPT !.op.count = IntPropMin1(st.op.count_before_typing),
                    !.op.typed_string = None]

back_space(st) ==
    IF st.op.typed_string = None THEN st ELSE modify_all_radial_arrays(BackSpaced(st))

\* "offset = event_mouse_offset_x / divisor", the divisor 300 with Shift held
\* and 90 without.
DragOffset(pixels, shift) == (pixels * FloatUnit) \div (IF shift THEN 300 ELSE 90)

\* round(x) of a float: to the nearest integer, a half to the even one.
RoundOf(x) ==
    LET a == IF x >= 0 THEN x ELSE 0 - x
        q == a \div FloatUnit
        r == a % FloatUnit
        n == IF 2 * r < FloatUnit THEN q
             ELSE IF 2 * r > FloatUnit THEN q + 1
             ELSE IF q % 2 = 0 THEN q ELSE q + 1
    IN  IF x >= 0 THEN n ELSE 0 - n

count_dragged_nearest(st, pixels, shift) ==
    LET s1 == [st EXCEPT !.op.count_float = @ + DragOffset(pixels, shift)]
    IN  IF ~st.op.count_changing THEN st
        ELSE IF st.op.count # RoundOf(s1.op.count_float)
        THEN modify_all_radial_arrays(
                [s1 EXCEPT !.op.count = IntPropMin1(RoundOf(s1.op.count_float))])
        ELSE s1

\* MOUSEMOVE while the count is being dragged.
count_dragged(st, pixels, shift) ==
    LET s1 == [st EXCEPT !.op.count_float = @ + DragOffset(pixels, shift)]
    IN  IF ~st.op.count_changing THEN st
        ELSE IF st.op.count # IntOf(s1.op.count_float)
        THEN modify_all_radial_arrays(
                [s1 EXCEPT !.op.count = IntPropMin1(IntOf(s1.op.count_float))])
        ELSE s1

\* MOUSEMOVE while the radius offset is being dragged, Ctrl and Shift not held
\* and snapping off; the radius is kept in 600ths, one per pixel.
radius_offset_dragged(st, pixels) ==
    IF ~st.op.radius_offset_changing THEN st
    ELSE modify_all_radial_arrays(
            [st EXCEPT !.op.radius_offset_float = @ + pixels,
                       !.op.radius_offset = st.op.radius_offset_float + pixels])

radius_offset_changing_pressed_any(st) == [st EXCEPT !.op.radius_offset_changing = TRUE]

\* the radius_offset_changing key: "... and context.object.type == 'MESH'"
radius_offset_changing_pressed(st) ==
    IF ObOf(st, st.op.master).type = "MESH"
    THEN [st EXCEPT !.op.radius_offset_changing = TRUE]
    ELSE st

count_changing_pressed(st) == [cancel_typing(st) EXCEPT !.op.count_changing = TRUE]

count_changing_released(st) == [cancel_typing(st) EXCEPT !.op.count_changing = FALSE]

\* A dictionary lookup d[k] of the modal, as a set of pairs; a missing key
\* raises KeyError.
Lookup(st, field, pairs, key) ==
    IF \E p \in pairs : p[1] = key
    THEN [st EXCEPT !.op[field] = (CHOOSE p \in pairs : p[1] = key)[2]]
    ELSE Raise(st)

\* get_property_default(self, idname) of the array operator: the default of
\* a declared property, KeyError for a name the operator does not declare.
ArrayPropertyDefaults == {<<"count", 6>>, <<"radius_offset", 0>>, <<"start_angle", 0>>,
                          <<"end_angle", R360>>, <<"height_offset", 0>>}

reset_count(st) ==
    LET s1 == Lookup(st, "count", ArrayPropertyDefaults, "count")
    IN  IF Failed(s1) THEN s1
        ELSE modify_all_radial_arrays([s1 EXCEPT !.op.count_float = Float(s1.op.count)])

spin_orientation_key(st) ==
    modify_all_radial_arrays(
        Lookup(st, "spin_orientation",
               IF st.scene.mode = "OBJECT"
               THEN {<<"GLOBAL", "LOCAL">>, <<"LOCAL", "VIEW">>, <<"VIEW", "GLOBAL">>}
               ELSE {<<"GLOBAL", "LOCAL">>, <<"LOCAL", "VIEW">>, <<"VIEW", "NORMAL">>,
                     <<"NORMAL", "GLOBAL">>},
               st.op.spin_orientation))

spin_axis_key(st) ==
    modify_all_radial_arrays(
        Lookup(st, "spin_axis", {<<"X", "Y">>, <<"Y", "Z">>, <<"Z", "X">>}, st.op.spin_axis))

axis_key(st, axis) == modify_all_radial_arrays([st EXCEPT !.op.spin_axis = axis])

set_next_pivot_point(st) ==
    LET is_top == TopOf(st, st.op.master_list) = Some(st.op.master)
        cycle == IF st.scene.mode = "OBJECT"
                 THEN IF is_top
                      THEN {<<"CURSOR", "ORIGIN">>, <<"ORIGIN", "CURSOR">>}
                      ELSE {<<"CURSOR", "ORIGIN">>, <<"ORIGIN", "CENTER_EMPTY">>,
                            <<"CENTER_EMPTY", "CURSOR">>}
                 ELSE IF is_top
                      THEN {<<"CURSOR", "ORIGIN">>, <<"ORIGIN", "MESH_SELECTION">>,
                            <<"MESH_SELECTION", "CURSOR">>}
                      ELSE {<<"CURSOR", "ORIGIN">>, <<"ORIGIN", "CENTER_EMPTY">>,
                            <<"CENTER_EMPTY", "MESH_SELECTION">>,
                            <<"MESH_SELECTION", "CURSOR">>}
    IN  Lookup(st, "pivot_point", cycle, st.op.pivot_point)

pivot_point_key(st) == modify_all_radial_arrays(set_next_pivot_point(st))

switch_radial_array_unguarded(st, direction) ==
    LET v == st.heap.lists[st.op.master_list].value
        active_idx == IndexOf(v, st.op.master) - 1
        idx == IF direction = "PREV" THEN active_idx - 1 ELSE active_idx + 1
    IN  IF idx < Len(v)
        THEN LET s1 == [st EXCEPT !.op.master = v[(idx % Len(v)) + 1]]
                 s2 == store_existing_radial_array_attrs(s1, s1.op.master)
             IN  modify_all_radial_arrays(set_operator_properties_from_master_radial_array(s2))
        ELSE st

switch_radial_array(st, direction) ==
    LET v == st.heap.lists[st.op.master_list].value
        active_idx == IndexOf(v, st.op.master) - 1
        idx == IF direction = "PREV" THEN active_idx - 1 ELSE active_idx + 1
    IN  IF 0 <= idx /\ idx < Len(v)
        THEN LET s1 == [st EXCEPT !.op.master = v[idx + 1]]
                 \* "master_radial_array not in radial_array_initial_attrs"
                 \* compares an instance with the names that key the
                 \* dictionary, so it is always true
                 s2 == store_existing_radial_array_attrs(s1, s1.op.master)
             IN  modify_all_radial_arrays(set_operator_properties_from_master_radial_array(s2))
        ELSE st

CanSwitch(st, direction) ==
    LET v == st.heap.lists[st.op.master_list].value
        idx == IndexOf(v, st.op.master) - 1 + (IF direction = "PREV" THEN 0 - 1 ELSE 1)
    IN  st.op.master \in SeqRange(v) /\ 0 <= idx /\ idx < Len(v)

add_radial_arrays(st) ==
    modify_all_radial_arrays(build_new_radial_arrays([st EXCEPT !.op.pivot_point = "CURSOR"]))

\* "if message is not None: self.report({'WARNING'}, message)"
Report(st, message) ==
    IF Failed(st) \/ message = "" THEN st ELSE [st EXCEPT !.op.report = Append(@, message)]

apply_one(st, i) == Report(RadialArray_apply(st, i), RadialArray_apply_result(st, i))

RECURSIVE ApplyEach(_, _)
ApplyEach(st, is) ==
    IF is = <<>> \/ Failed(st) THEN st ELSE ApplyEach(apply_one(st, Head(is)), Tail(is))

apply_active_radial_arrays(st) == ApplyEach(st, <<st.op.master>> \o st.op.slaves)

RECURSIVE RemoveEach(_, _)
RemoveEach(st, is) ==
    IF is = <<>> \/ Failed(st) THEN st ELSE RemoveEach(RadialArray_remove(st, Head(is)), Tail(is))

remove_active_radial_arrays(st) == RemoveEach(st, <<st.op.master>> \o st.op.slaves)

remove_new_radial_arrays(st) == RemoveEach(st, st.op.new_radial_arrays)

restore_one(st, i) ==
    LET attrs == st.op.initial_attrs[Inst(st, i).name]
    IN  IF ~HasArray(st, i) \/ ~attrs.full THEN Raise(st)
        ELSE SetArray(st, i, [ArrayOf(st, i) EXCEPT !.props =
                [@ EXCEPT !.spin_orientation_matrix_object =
                              StoredFromRavel(Transposed(attrs.spin_orientation_matrix_object)),
                          !.spin_orientation = attrs.spin_orientation,
                          !.spin_axis = attrs.spin_axis,
                          !.count = attrs.count,
                          !.radius_offset = attrs.radius_offset,
                          !.start_angle = attrs.start_angle,
                          !.end_angle = attrs.end_angle,
                          !.height_offset = attrs.height_offset]])

RECURSIVE RestoreEach(_, _)
RestoreEach(st, is) ==
    IF is = {} \/ Failed(st) THEN st
    ELSE LET i == CHOOSE x \in is : TRUE
         IN  RestoreEach(restore_one(st, i), is \ {i})

\* The writes go to the property groups of different arrays, so the order
\* in which the set is walked does not show.
restore_radial_array_attributes(st) ==
    RestoreEach(st, st.op.modified \ SeqRange(st.op.new_radial_arrays))

RECURSIVE RestorePivotEach(_, _)
RestorePivotEach(st, is) ==
    IF is = <<>> \/ Failed(st) THEN st
    ELSE LET i == Head(is)
             s1 == IF Inst(st, i).name \in DOMAIN st.op.last_set
                   THEN RadialArrayPivotPoint_set(st, i,
                            Vec(st.op.initial_attrs[Inst(st, i).name].pivot_point_co_world))
                   ELSE RadialArray_refresh(st, i)
         IN  RestorePivotEach(s1, Tail(is))

\* `order` is the order in which the set modified_radial_arrays is walked.
restore_radial_array_pivot_points_or_refresh(st, order) == RestorePivotEach(st, order)

restore_all_radial_arrays(st, order) ==
    remove_new_radial_arrays(
        restore_radial_array_pivot_points_or_refresh(restore_radial_array_attributes(st), order))

restore_ob_origin(st) ==
    IF Failed(st) THEN st
    ELSE IF st.heap.lists[st.op.master_list].value = <<>>
    THEN set_origin(st, st.op.master_ob, st.op.master_ob_initial_origin)
    ELSE st

Finished(st, result) == IF Failed(st) THEN st ELSE [st EXCEPT !.op.state = result]

cancel(st, order) == Finished(restore_ob_origin(restore_all_radial_arrays(st, order)), "CANCELLED")

\* The orders in which a set of instances can be walked, up to the order of
\* instances of different objects (whose operations touch different data).
WalkOrders(st, is) ==
    LET of(o) == {i \in is : Inst(st, i).ob = o}
        obs == {Inst(st, i).ob : i \in is}
        per == [o \in obs |-> Orders(of(o))]
        RECURSIVE Cat(_, _)
        Cat(f, os) == IF os = {} THEN <<>>
                      ELSE LET o == CHOOSE x \in os : TRUE
                           IN  f[o] \o Cat(f, os \ {o})
    IN  {Cat(f, obs) : f \in {g \in [obs -> UNION {per[o] : o \in obs}] :
                                    \A o \in obs : g[o] \in per[o]}}

(***************************************************************************)
(* The state machine.  ghost is not program state: it records the scene    *)
(* as it was when the session was invoked (pre), the number of events a    *)
(* run may still take (budget), a log of typing events when one is kept    *)
(* (keys, counts) and the pivot symbols set by the last consecutive pivot  *)
(* events (trail).                                                         *)
(***************************************************************************)
State == [scene |-> scene, heap |-> heap, op |-> op]

Becomes(st) == scene' = st.scene /\ heap' = st.heap /\ op' = st.op

Last2(s) == IF Len(s) <= 2 THEN s ELSE SubSeq(s, Len(s) - 1, Len(s))

\* An event that is not a pivot event and not a typing event.
Plain(g) == [g EXCEPT !.budget = @ - 1, !.trail = <<>>]

\* o is the operator after the event
PivotEvent(g, o) == [g EXCEPT !.budget = @ - 1, !.trail = Last2(Append(@, o.pivot_point))]

\* count is the committed count after the event
TypingEvent(g, key, count) ==
    [g EXCEPT !.budget = @ - 1, !.trail = <<>>,
              !.keys = IF g.logging THEN Append(@, key) ELSE @,
              !.counts = IF g.logging THEN Append(@, count) ELSE @]

\* The start of a session: the scene is remembered, and the committed count
\* opens the log.
Invoked(g, sc, count) ==
    [g EXCEPT !.pre = sc, !.counts = IF g.logging THEN <<count>> ELSE @]

StateNext == [scene |-> scene', heap |-> heap', op |-> op']

\* The count committed to the master array, 0 - 1 when the handler failed.
ArrayCommitted(st) ==
    IF Failed(st) \/ ~HasArray(st, st.op.master) THEN 0 - 1
    ELSE ArrayOf(st, st.op.master).props.count

ArrayRunning == op.kind = "ARRAY" /\ op.state = "RUNNING" /\ ghost.budget > 0

EmptyHeap == [lists |-> <<>>, inst |-> <<>>]

NoDict == <<>>

ArrayOp(new, from_button, event, use_wheelmouse) ==
    [kind |-> "ARRAY", state |-> "IDLE",
     new |-> new, from_button |-> from_button, event |-> event,
     use_wheelmouse |-> use_wheelmouse,
     spin_orientation |-> "LOCAL", spin_axis |-> "Z", count |-> 6,
     radius_offset |-> 0, start_angle |-> 0, end_angle |-> R360, height_offset |-> 0,
     pivot_point |-> "ORIGIN",
     master_ob |-> "", slave_obs |-> <<>>, master_ob_initial_origin |-> 0,
     master_list |-> 0, master |-> 0, slaves |-> <<>>,
     new_radial_arrays |-> <<>>, modified |-> {},
     initial_attrs |-> NoDict, last_set |-> NoDict,
     typed_string |-> None, count_before_typing |-> 0,
     count_float |-> Float(6), count_changing |-> FALSE,
     radius_offset_float |-> 0, radius_offset_changing |-> FALSE,
     report |-> <<>>]

ArrayInvoke ==
    /\ op.kind = "ARRAY" /\ op.state = "IDLE"
    /\ Becomes(invoke(State))
    /\ ghost' = Invoked(ghost, scene, ArrayCommitted(StateNext))

ArrayWheelUp ==
    /\ ArrayRunning /\ op.use_wheelmouse /\ op.count < MaxCount
    /\ Becomes(Running(wheel_up(State)))
    /\ ghost' = Plain(ghost)

ArrayWheelDown ==
    /\ ArrayRunning /\ op.use_wheelmouse
    /\ Becomes(Running(wheel_down(State)))
    /\ ghost' = Plain(ghost)

ArrayDigit ==
    /\ ArrayRunning
    /\ \E digit \in 0..MaxDigit :
        /\ op.typed_string # None => Len(op.typed_string[1]) < MaxTyped
        /\ Becomes(Running(digit_pressed(State, digit)))
        /\ ghost' = TypingEvent(ghost, digit, ArrayCommitted(StateNext))

ArrayBackspace ==
    /\ ArrayRunning
    /\ Becomes(Running(back_space(State)))
    /\ ghost' = TypingEvent(ghost, BackspaceKey, ArrayCommitted(StateNext))

ArraySpinOrientationKey ==
    /\ ArrayRunning
    /\ Becomes(Running(spin_orientation_key(State)))
    /\ ghost' = Plain(ghost)

ArraySpinAxisKey ==
    /\ ArrayRunning
    /\ Becomes(Running(spin_axis_key(State)))
    /\ ghost' = Plain(ghost)

ArrayAxisKey ==
    /\ ArrayRunning
    /\ \E axis \in {"X", "Y", "Z"} : Becomes(Running(axis_key(State, axis)))
    /\ ghost' = Plain(ghost)

ArrayPivotPointKey ==
    /\ ArrayRunning
    /\ Becomes(Running(pivot_point_key(State)))
    /\ ghost' = PivotEvent(ghost, op')

ArraySwitch ==
    /\ ArrayRunning
    /\ \E direction \in {"PREV", "NEXT"} :
        /\ CanSwitch(State, direction)
        /\ Becomes(Running(switch_radial_array(State, direction)))
    /\ ghost' = Plain(ghost)

ArrayAdd ==
    /\ ArrayRunning
    /\ ghost.adds < MaxAdds
    /\ \A o \in {op.master_ob} \cup SeqRange(op.slave_obs) : NameAvailable(State, o)
    /\ Becomes(Running(add_radial_arrays(State)))
    /\ ghost' = [PivotEvent(ghost, op') EXCEPT !.adds = @ + 1]

\* The construct of modifier `name` is first in the stack `mods`: nothing
\* but its own nodes modifier `nodes` comes before its modifier.
ConstructFirst(mods, name, nodes) ==
    \A k \in 1..ModIndex(mods, name) : mods[k].name = nodes

\* What ghost.applies keeps of one apply(): whether the construct was first
\* in the stack when apply() was called, the message apply() returned, and
\* whether on return the modifier has left the stack and is in the object data.
ApplyEntry(before, after, name, nodes, o, message) ==
    [name |-> name,
     first |-> ConstructFirst(before.scene.ob[o].mods, name, nodes),
     message |-> message,
     done |-> /\ ~Failed(after)
              /\ ModIndex(after.scene.ob[o].mods, name) < 0
              /\ Len(after.scene.ob[o].applied) > Len(before.scene.ob[o].applied)
              /\ after.scene.ob[o].applied[Len(after.scene.ob[o].applied)] = name]

RECURSIVE ArrayApplyLog(_, _)
ArrayApplyLog(st, is) ==
    IF is = <<>> \/ Failed(st) THEN <<>>
    ELSE <<ApplyEntry(st, RadialArray_apply(st, Head(is)), Inst(st, Head(is)).name,
                      NodesNameOf(Inst(st, Head(is)).name), Inst(st, Head(is)).ob,
                      RadialArray_apply_result(st, Head(is)))>>
         \o ArrayApplyLog(apply_one(st, Head(is)), Tail(is))

ArrayApply ==
    /\ ArrayRunning
    /\ scene.ob[op.master_ob].type = "MESH"
    /\ Becomes(Finished(apply_active_radial_arrays(State), "FINISHED"))
    /\ ghost' = [Plain(ghost) EXCEPT
                    !.applies = ArrayApplyLog(State, <<op.master>> \o op.slaves)]

ArrayRemove ==
    /\ ArrayRunning
    /\ Becomes(Finished(remove_active_radial_arrays(State), "FINISHED"))
    /\ ghost' = Plain(ghost)

ArrayCancel ==
    /\ ArrayRunning
    /\ \E order \in WalkOrders(State, op.modified) : Becomes(cancel(State, order))
    /\ ghost' = Plain(ghost)

ArrayConfirm ==
    /\ ArrayRunning
    /\ Becomes(Finished(State, "FINISHED"))
    /\ ghost' = Plain(ghost)

(***************************************************************************)
(* Initial states of an array session.  Two objects, M (active) and S,     *)
(* carry the radial arrays that earlier sessions of the same operator left *)
(* on them: none, one, or two (the second made with the "add" key).  The   *)
(* earlier sessions are run with the handlers above, so the modifiers,     *)
(* properties and empties of an initial scene are those the program makes. *)
(***************************************************************************)
Objects == {"M", "S"}

StartCo == [M |-> 10, S |-> 20, cursor |-> 30, selection |-> 40, prior_cursor |-> 50]

BaseOb(origin) ==
    [origin |-> origin, type |-> "MESH", mods |-> <<>>, arrays |-> <<>>, screws |-> <<>>,
     applied |-> <<>>, baked |-> <<>>]

BaseScene ==
    [ob |-> [o \in Objects |-> BaseOb(StartCo[o])],
     empties |-> <<>>, axes |-> <<>>, node_groups |-> {},
     dups |-> <<>>, parent |-> [o \in Objects |-> 0],
     cursor |-> StartCo.cursor, selection |-> StartCo.selection,
     mode |-> "OBJECT", selected |-> FALSE,
     active |-> "M", selected_slaves |-> <<>>]

\* An earlier session on object o alone: n arrays, the count lowered by the
\* wheel when wheel is TRUE, confirmed.
PriorStart(sc, o) ==
    [scene |-> [sc EXCEPT !.active = o, !.selected_slaves = <<>>,
                          !.cursor = StartCo.prior_cursor],
     heap |-> EmptyHeap,
     op |-> ArrayOp(FALSE, FALSE, "PLAIN", TRUE)]

PriorWheel(st, wheel) == IF wheel THEN wheel_down(st) ELSE st

PriorAdd(st, n) == IF n = 2 THEN add_radial_arrays(st) ELSE st

PriorEnd(st, sc) ==
    [st.scene EXCEPT !.active = sc.active, !.selected_slaves = sc.selected_slaves,
                     !.cursor = sc.cursor]

PriorSession(sc, o, n, wheel) ==
    IF n = 0 THEN sc
    ELSE PriorEnd(PriorAdd(PriorWheel(invoke(PriorStart(sc, o)), wheel), n), sc)

Ghost(sc, budget, logging) ==
    [pre |-> sc, budget |-> budget, logging |-> logging, keys |-> <<>>, counts |-> <<>>,
     trail |-> <<>>, adds |-> 0,
     tracking |-> FALSE, used |-> <<>>, now |-> <<>>, toggled |-> FALSE,
     moves |-> {}, applies |-> <<>>]

\* How the operator is invoked: the "new" property, whether from the sidebar
\* button and with which modifier key, and the wheel preference.
Invocations ==
    {[new |-> FALSE, from_button |-> FALSE, event |-> "PLAIN", use_wheelmouse |-> TRUE],
     [new |-> TRUE, from_button |-> FALSE, event |-> "PLAIN", use_wheelmouse |-> FALSE],
     [new |-> FALSE, from_button |-> TRUE, event |-> "CTRL", use_wheelmouse |-> TRUE],
     [new |-> FALSE, from_button |-> TRUE, event |-> "SHIFT", use_wheelmouse |-> TRUE]}

EditStates ==
    {[mode |-> "OBJECT", selected |-> FALSE],
     [mode |-> "EDIT_MESH", selected |-> TRUE],
     [mode |-> "EDIT_MESH", selected |-> FALSE]}

\* S is either not selected, or selected with sn arrays whose count differs
\* from M's when sw is TRUE.
Selections ==
    {[slaves |-> <<>>, sn |-> 0, sw |-> FALSE]}
    \cup {[slaves |-> <<"S">>, sn |-> 0, sw |-> FALSE]}
    \cup {[slaves |-> <<"S">>, sn |-> sn, sw |-> sw] : sn \in 1..2, sw \in BOOLEAN}

ArrayScenes ==
    {[PriorSession(PriorSession(BaseScene, "M", mn, FALSE), "S", sel.sn, sel.sw)
        EXCEPT !.selected_slaves = sel.slaves, !.mode = e.mode, !.selected = e.selected] :
        mn \in 0..2, sel \in Selections, e \in EditStates}

ArrayInit ==
    /\ scene \in ArrayScenes
    /\ heap = EmptyHeap
    /\ \E v \in Invocations : op = ArrayOp(v.new, v.from_button, v.event, v.use_wheelmouse)
    /\ ghost = Ghost(scene, MaxArrayEvents, FALSE)

ArrayNext ==
    \/ ArrayInvoke
    \/ ArrayWheelUp
    \/ ArrayWheelDown
    \/ ArraySpinOrientationKey
    \/ ArraySpinAxisKey
    \/ ArrayAxisKey
    \/ ArrayPivotPointKey
    \/ ArraySwitch
    \/ ArrayAdd
    \/ ArrayApply
    \/ ArrayRemove
    \/ ArrayCancel
    \/ ArrayConfirm

Spec == ArrayInit /\ [][ArrayNext]_vars

(***************************************************************************)
(* What cancelling an array session leaves behind.                         *)
(***************************************************************************)
\* The objects the session works on.
Targets == {op.master_ob} \cup SeqRange(op.slave_obs)

ArrayCancelled == op.kind = "ARRAY" /\ op.state = "CANCELLED"

\* The numeric parameters and the cached orientation transform of a
\* property record.
Parameters(props) ==
    [count |-> props.count, radius_offset |-> props.radius_offset,
     start_angle |-> props.start_angle, end_angle |-> props.end_angle,
     height_offset |-> props.height_offset,
     spin_orientation_matrix_object |-> props.spin_orientation_matrix_object]

\* The arrays of object o that were there before the session and that the
\* session modified.
EditedExisting(o) ==
    {Inst(State, i).name : i \in {j \in op.modified : Inst(State, j).ob = o}}
        \cap DOMAIN ghost.pre.ob[o].arrays

\* C1: after cancel, every array that existed before the session and was
\* edited by it, on the master and on every slave, has the numeric
\* parameters and the cached orientation transform it had before the session.
C1_CancelRestoresParameters ==
    ArrayCancelled =>
        \A o \in Targets : \A n \in EditedExisting(o) :
            /\ n \in DOMAIN scene.ob[o].arrays
            /\ Parameters(scene.ob[o].arrays[n].props)
                 = Parameters(ghost.pre.ob[o].arrays[n].props)

\* C2: after cancel, every target object that had no radial array before the
\* session has none now, and its origin is where it was before the session.
C2_CancelOfNewLeavesNothing ==
    ArrayCancelled =>
        \A o \in Targets :
            _get_radial_arrays([scene |-> ghost.pre], o) = <<>> =>
                /\ _get_radial_arrays(State, o) = <<>>
                /\ scene.ob[o].arrays = <<>>
                /\ scene.ob[o].origin = ghost.pre.ob[o].origin

\* An array's scene data with its center empty given by its location.
Shown(sc, a) ==
    [a EXCEPT !.props.center_empty =
        IF @ = None THEN None ELSE Some(sc.empties[@[1]].co)]

\* What a scene shows of an object: origin, modifier stack, and for each
\* array its properties, helper objects and node inputs.
ShownObject(sc, o) ==
    [origin |-> sc.ob[o].origin, mods |-> sc.ob[o].mods, applied |-> sc.ob[o].applied,
     arrays |-> [n \in DOMAIN sc.ob[o].arrays |-> Shown(sc, sc.ob[o].arrays[n])]]

LiveEmpties(sc) == Cardinality({k \in DOMAIN sc.empties : sc.empties[k].alive})

\* C3: after cancel the scene is the pre-session scene: every target object
\* has the same origin, the same modifiers in the same order, the same
\* property records, helper objects and node inputs, and no helper object is
\* left over.
C3_CancelIsTotal ==
    ArrayCancelled =>
        /\ \A o \in Targets : ShownObject(scene, o) = ShownObject(ghost.pre, o)
        /\ LiveEmpties(scene) = LiveEmpties(ghost.pre)

\* The arrays the session is working on that existed, with their pivot at
\* the object origin, when the session started.
OriginAtStart(i) ==
    /\ Inst(State, i).name \in DOMAIN ghost.pre.ob[Inst(State, i).ob].arrays
    /\ ghost.pre.ob[Inst(State, i).ob].arrays[Inst(State, i).name].props.center_empty = None

\* C5: when the last two events set the pivot to CURSOR and then to ORIGIN,
\* every array of the session whose pivot was ORIGIN at session start has
\* its pivot at the pre-session origin of its object.
C5_OriginAfterCursorIsPreSession ==
    (op.kind = "ARRAY" /\ op.state = "RUNNING" /\ ghost.trail = <<"CURSOR", "ORIGIN">>) =>
        \A i \in SeqRange(<<op.master>> \o op.slaves) :
            (HasArray(State, i) /\ OriginAtStart(i)) =>
                co_world(State, i) = ghost.pre.ob[Inst(State, i).ob].origin

(***************************************************************************)
(* radial_objects/radial_screw_object.py and radial_screw_builder.py.      *)
(* The scene data of a radial screw is scene.ob[o].screws[name]:           *)
(*   props = the property group, sm = the screw modifier's fields,         *)
(*   nodes = the nodes modifier's inputs.                                  *)
(* An axis empty is a slot of scene.axes: [co, mx, alive].  An instance    *)
(* heap.inst[i] = [ob, name, sib, ae] holds its axis empty reference.      *)
(***************************************************************************)
ScrewNames == <<"RadialScrew", "RadialScrew.001", "RadialScrew.002">>

ScrewNodesNames == <<"RadialScrewOffset", "RadialScrewOffset.001", "RadialScrewOffset.002">>

ScrewNodesNameOf(name) == ScrewNodesNames[IndexOf(ScrewNames, name)]

HasScrew(st, i) == Inst(st, i).name \in DOMAIN ObOf(st, i).screws

ScrewOf(st, i) == ObOf(st, i).screws[Inst(st, i).name]

SetScrew(st, i, s) ==
    [st EXCEPT !.scene.ob[Inst(st, i).ob].screws[Inst(st, i).name] = s]

\* axis_empty.value is None, or names an object that was removed
NoAxis(st, i) ==
    \/ Inst(st, i).ae = None
    \/ ~st.scene.axes[Inst(st, i).ae[1]].alive

AxisOf(st, i) == st.scene.axes[Inst(st, i).ae[1]]

RadialScrewProps_update(st, i, a) ==
    IF Failed(st) THEN st
    ELSE IF ~HasScrew(st, i) THEN Raise(st)
    ELSE SetScrew(st, i, [ScrewOf(st, i) EXCEPT !.props =
            [spin_orientation |-> a.spin_orientation,
             spin_orientation_matrix_object |->
                StoredFromRavel(Transposed(
                    MatMul(matrix_world_inverted(st, Inst(st, i).ob),
                           _get_spin_orientation_matrix(st, i, a.spin_orientation)))),
             spin_axis |-> a.spin_axis,
             steps |-> a.steps,
             radius_offset |-> a.radius_offset,
             start_angle |-> a.start_angle,
             end_angle |-> a.end_angle,
             screw_offset |-> a.screw_offset,
             iterations |-> a.iterations]])

RadialScrewScrewMod_refresh(st, i) ==
    SetScrew(st, i, [ScrewOf(st, i) EXCEPT !.sm =
        [steps |-> ScrewOf(st, i).props.steps,
         iterations |-> ScrewOf(st, i).props.iterations,
         axis |-> ScrewOf(st, i).props.spin_axis,
         screw_offset |-> ScrewOf(st, i).props.screw_offset,
         angle |-> ScrewOf(st, i).props.end_angle - ScrewOf(st, i).props.start_angle,
         object |-> Inst(st, i).ae]])

\* new_nodes_mod of radial_screw_builder.py: added last, then moved before
\* the screw modifier
new_screw_nodes_mod(st, i) ==
    LET mods == Append(ObOf(st, i).mods,
                       [name |-> ScrewNodesNameOf(Inst(st, i).name), type |-> "NODES"])
    IN  [st EXCEPT !.scene.ob[Inst(st, i).ob].mods =
            MoveMod(mods, Len(mods) - 1,
                    get_modifier_index(Len(mods) - 1, ModIndex(mods, Inst(st, i).name),
                                       "BEFORE")),
                   !.scene.node_groups =
                        @ \cup {NodeGroupOf(Inst(st, i).ob, ScrewNodesNameOf(Inst(st, i).name))}]

RadialScrewNodesMod_remove(st, i) ==
    IF ScrewOf(st, i).nodes = None THEN st
    ELSE [SetScrew(st, i, [ScrewOf(st, i) EXCEPT !.nodes = None])
            EXCEPT !.scene.ob[Inst(st, i).ob].mods =
                        RemoveMod(@, ScrewNodesNameOf(Inst(st, i).name)),
                   !.scene.node_groups =
                        @ \ {NodeGroupOf(Inst(st, i).ob, ScrewNodesNameOf(Inst(st, i).name))}]

ScrewNodesInputs(st, i) ==
    [rotation |-> ScrewOf(st, i).props.start_angle,
     translation |-> ScrewOf(st, i).props.radius_offset,
     pivot |-> AxisOf(st, i).co - ObOf(st, i).origin]

RadialScrewNodesMod_refresh(st, i) ==
    IF ScrewOf(st, i).props.start_angle # 0 \/ ScrewOf(st, i).props.radius_offset # 0
    THEN IF ScrewOf(st, i).nodes = None
         THEN SetScrew(new_screw_nodes_mod(st, i), i,
                       [ScrewOf(st, i) EXCEPT !.nodes = Some(ScrewNodesInputs(st, i))])
         ELSE SetScrew(st, i, [ScrewOf(st, i) EXCEPT !.nodes = Some(ScrewNodesInputs(st, i))])
    ELSE RadialScrewNodesMod_remove(st, i)

\* matrix_world = ob.matrix_world @ spin_orientation_matrix_object, with the
\* translation kept at the pivot point
RadialScrewAxisEmpty_refresh(st, i) ==
    [st EXCEPT !.scene.axes[Inst(st, i).ae[1]].mx =
        [rot |-> ScrewOf(st, i).props.spin_orientation_matrix_object.rot,
         tp |-> ScrewOf(st, i).props.spin_orientation_matrix_object.tp]]

RefreshScrewMesh(st, i) ==
    IF ObOf(st, i).type = "MESH" THEN RadialScrewNodesMod_refresh(st, i) ELSE st

RadialScrew_refresh(st, i) ==
    IF Failed(st) THEN st
    ELSE IF ~HasScrew(st, i) \/ NoAxis(st, i) THEN Raise(st)
    ELSE RadialScrewAxisEmpty_refresh(
            RadialScrewScrewMod_refresh(RefreshScrewMesh(st, i), i), i)

(***************************************************************************)
(* RadialScrewPivotPoint.                                                  *)
(***************************************************************************)
RadialScrewPivotPoint_co_world(st, i) == AxisOf(st, i).co

RadialScrewPivotPoint_get_point_co_world(st, i, point) ==
    IF point.kind = "VEC" THEN point.co
    ELSE CASE point.sym = "ORIGIN" -> ObOf(st, i).origin
           [] point.sym = "CURSOR" -> st.scene.cursor
           [] point.sym = "MESH_SELECTION" -> st.scene.selection
           [] point.sym = "ACTIVE_OBJECT" -> st.scene.ob[st.scene.active].origin
           [] point.sym = "AXIS_EMPTY" -> AxisOf(st, i).co

\* axis_empty.matrix_world.translation = point_co
SetAxisEmptyTranslation(st, i, point_co) ==
    IF Failed(st) THEN st
    ELSE [st EXCEPT !.scene.axes[Inst(st, i).ae[1]].co = point_co]

\* The object is never parented to its axis empty, so the origin is set
\* first and the axis empty moved after it.
_set_top_radial_screw_pivot_point(st, i, point_co) ==
    RadialScrew_refresh(
        SetAxisEmptyTranslation(set_origin(st, Inst(st, i).ob, point_co), i, point_co), i)

_set_child_radial_screw_pivot_point(st, i, point_co) ==
    RadialScrew_refresh(SetAxisEmptyTranslation(st, i, point_co), i)

\* The branch of RadialScrewPivotPoint.set for the resolved coordinate.
SetScrewPivotAt(st, i, point_co) ==
    IF st.heap.lists[Inst(st, i).sib].value = <<>>
    THEN set_origin(st, Inst(st, i).ob, point_co)
    ELSE IF TopOf(st, Inst(st, i).sib) = Some(i)
    THEN _set_top_radial_screw_pivot_point(st, i, point_co)
    ELSE _set_child_radial_screw_pivot_point(st, i, point_co)

RadialScrewPivotPoint_set(st, i, point) ==
    IF Failed(st) THEN st
    ELSE IF NoAxis(st, i) THEN Raise(st)
    ELSE SetScrewPivotAt(st, i, RadialScrewPivotPoint_get_point_co_world(st, i, point))

RadialScrew_modify(st, i, a, pivot_point) ==
    IF pivot_point # NoPoint
    THEN RadialScrewPivotPoint_set(RadialScrewProps_update(st, i, a), i, pivot_point)
    ELSE RadialScrew_refresh(RadialScrewProps_update(st, i, a), i)

(***************************************************************************)
(* Building RadialScrew instances.  The scene data of a screw is kept      *)
(* whole, so building from a modifier repairs nothing here.                *)
(***************************************************************************)
IsRadialScrewMod(m) == m.type = "SCREW" /\ m.name \in SeqRange(ScrewNames)

_get_radial_screws(st, o) ==
    LET ms == SelectSeq(st.scene.ob[o].mods, IsRadialScrewMod)
    IN  [k \in 1..Len(ms) |-> ms[k].name]

\* ObjectRadialScrews(context, ob): the new list is the last of heap.lists.
ObjectRadialScrews(st, o) ==
    LET names == _get_radial_screws(st, o)
        base == Len(st.heap.inst)
    IN  [st EXCEPT !.heap.inst = @ \o
                        [k \in 1..Len(names) |->
                            [ob |-> o, name |-> names[k], sib |-> Len(st.heap.lists) + 1,
                             ae |-> st.scene.ob[o].screws[names[k]].sm.object]],
                   !.heap.lists = Append(@, [ob |-> o,
                        value |-> [k \in 1..Len(names) |-> base + k]])]

\* The name ob.modifiers.new(name="RadialScrew") gives the modifier.
UniqueScrewName(st, o) ==
    LET used == {st.scene.ob[o].mods[k].name : k \in DOMAIN st.scene.ob[o].mods}
    IN  ScrewNames[CHOOSE j \in DOMAIN ScrewNames :
                        /\ ScrewNames[j] \notin used
                        /\ \A m \in 1..(j - 1) : ScrewNames[m] \in used]

ScrewNameAvailable(st, o) ==
    \E j \in DOMAIN ScrewNames :
        \A k \in DOMAIN st.scene.ob[o].mods : st.scene.ob[o].mods[k].name # ScrewNames[j]

\* The stack after adding the modifier `name` at the end and sorting it:
\* after the last other screw, else the last mirror, else first.
sort_screw_mod(mods, name) ==
    LET cur == ModIndex(mods, name)
        others == RemoveMod(mods, name)
        ref(types) == ModIndex(mods, others[LastIndexOfType(others, types) + 1].name)
        to == IF LastIndexOfType(others, {"SCREW"}) >= 0
              THEN get_modifier_index(cur, ref({"SCREW"}), "AFTER")
              ELSE IF LastIndexOfType(others, {"MIRROR"}) >= 0
              THEN get_modifier_index(cur, ref({"MIRROR"}), "AFTER")
              ELSE 0
    IN  MoveMod(mods, cur, to)

new_screw_props(st, o) ==
    [spin_orientation |-> "LOCAL",
     spin_orientation_matrix_object |-> StoredFromRavel(matrix_world_inverted(st, o)),
     spin_axis |-> "Z", steps |-> 16, radius_offset |-> 0, start_angle |-> 0,
     end_angle |-> R360, screw_offset |-> 0, iterations |-> 1]

\* The axis empty starts at the object's world matrix.
new_axis_empty(st, o) ==
    [co |-> st.scene.ob[o].origin, mx |-> [rot |-> "I", tp |-> FALSE], alive |-> TRUE]

\* The fields of a screw modifier as the host creates it, with the axis
\* empty k set as its axis object.
new_screw_mod(k) ==
    [steps |-> 16, iterations |-> 1, axis |-> "Z", screw_offset |-> 0, angle |-> R360,
     object |-> Some(k)]

\* RadialScrew.new(siblings) followed by siblings.value.append(...)
ObjectRadialScrews_new(st, l) ==
    LET o == st.heap.lists[l].ob
        name == UniqueScrewName(st, o)
        k == Len(st.scene.axes) + 1
    IN  [st EXCEPT !.scene.ob[o].mods =
                        sort_screw_mod(Append(@, [name |-> name, type |-> "SCREW"]), name),
                   !.scene.ob[o].screws =
                        Put(@, name, [props |-> new_screw_props(st, o),
                                      sm |-> new_screw_mod(k), nodes |-> None]),
                   !.scene.axes = Append(@, new_axis_empty(st, o)),
                   !.heap.inst = Append(@, [ob |-> o, name |-> name, sib |-> l,
                                            ae |-> Some(k)]),
                   !.heap.lists[l].value = Append(@, Len(st.heap.inst) + 1)]

(***************************************************************************)
(* apply and remove of a radial screw.  scene.ob[o].baked records, for     *)
(* each screw modifier applied, the axis object the modifier had then.     *)
(***************************************************************************)
\* bpy.data.objects.remove(axis_empty, do_unlink=True): every pointer that
\* named the empty, the screw modifiers' axis objects among them, is cleared.
UnlinkAxis(st, k) ==
    [st EXCEPT !.scene.axes[k].alive = FALSE,
               !.scene.ob = [o \in DOMAIN @ |-> [@[o] EXCEPT !.screws =
                    [n \in DOMAIN @ |-> IF @[n].sm.object = Some(k)
                                        THEN [@[n] EXCEPT !.sm.object = None]
                                        ELSE @[n]]]]]

RadialScrewAxisEmpty_remove(st, i) ==
    IF Failed(st) \/ Inst(st, i).ae = None THEN st
    ELSE IF NoAxis(st, i) THEN Raise(st)
    ELSE [UnlinkAxis(st, Inst(st, i).ae[1]) EXCEPT !.heap.inst[i].ae = None]

RadialScrewNodesMod_apply(st, i) ==
    IF Failed(st) \/ ScrewOf(st, i).nodes = None THEN st
    ELSE modifier_apply(SetScrew(st, i, [ScrewOf(st, i) EXCEPT !.nodes = None]),
                        Inst(st, i).ob, ScrewNodesNameOf(Inst(st, i).name))

RadialScrewScrewMod_apply_message(st, i) ==
    IF ModIndex(ObOf(st, i).mods, Inst(st, i).name) > 0 THEN WarnNotFirst ELSE ""

RadialScrewScrewMod_apply(st, i) ==
    IF Failed(st) THEN st
    ELSE [modifier_apply(st, Inst(st, i).ob, Inst(st, i).name)
            EXCEPT !.scene.ob[Inst(st, i).ob].baked =
                Append(@, [name |-> Inst(st, i).name, object |-> ScrewOf(st, i).sm.object])]

\* properties.remove() and siblings.value.remove(self)
DiscardScrew(st, i) ==
    IF Failed(st) THEN st
    ELSE [st EXCEPT !.scene.ob[Inst(st, i).ob].screws = Drop(@, Inst(st, i).name),
                    !.heap.lists[Inst(st, i).sib].value = SeqWithout(@, i)]

\* The message apply() returns.
RadialScrew_apply_result(st, i) ==
    IF Failed(st) \/ ~HasScrew(st, i) THEN ""
    ELSE RadialScrewScrewMod_apply_message(
            RadialScrewNodesMod_apply(RadialScrewAxisEmpty_remove(st, i), i), i)

RadialScrew_apply(st, i) ==
    IF Failed(st) THEN st
    ELSE IF ~HasScrew(st, i) THEN Raise(st)
    ELSE DiscardScrew(
            RadialScrewScrewMod_apply(
                RadialScrewNodesMod_apply(RadialScrewAxisEmpty_remove(st, i), i), i), i)

RadialScrewScrewMod_remove(st, i) ==
    IF Failed(st) THEN st
    ELSE [st EXCEPT !.scene.ob[Inst(st, i).ob].mods = RemoveMod(@, Inst(st, i).name)]

RadialScrew_remove(st, i) ==
    IF Failed(st) THEN st
    ELSE IF ~HasScrew(st, i) THEN Raise(st)
    ELSE DiscardScrew(
            RadialScrewScrewMod_remove(
                RadialScrewNodesMod_remove(RadialScrewAxisEmpty_remove(st, i), i), i), i)

(***************************************************************************)
(* operators/radial_screw/radial_screw_modal.py.  The operator record has  *)
(* the fields of the array operator, with steps, screw_offset, iterations  *)
(* and steps_before_typing; its two dictionaries are keyed by instance.    *)
(***************************************************************************)
ScrewParams(o) ==
    [spin_orientation |-> o.spin_orientation, spin_axis |-> o.spin_axis,
     steps |-> o.steps, radius_offset |-> o.radius_offset,
     start_angle |-> o.start_angle, end_angle |-> o.end_angle,
     screw_offset |-> o.screw_offset, iterations |-> o.iterations]

\* An entry of radial_screw_initial_attrs: of a new screw only the pivot
\* point is stored (full = FALSE).
ScrewAttrs(st, i, full) ==
    [full |-> full, props |-> ScrewOf(st, i).props,
     pivot_point |-> "AXIS_EMPTY",
     pivot_point_co_world |-> RadialScrewPivotPoint_co_world(st, i)]

store_new_radial_screw_attrs(st, i) ==
    IF Failed(st) \/ i \in DOMAIN st.op.initial_attrs THEN st
    ELSE IF ~HasScrew(st, i) \/ NoAxis(st, i) THEN Raise(st)
    ELSE [st EXCEPT !.op.initial_attrs = Put(@, i, ScrewAttrs(st, i, FALSE))]

store_existing_radial_screw_attrs(st, i) ==
    IF Failed(st) \/ i \in DOMAIN st.op.initial_attrs THEN st
    ELSE IF ~HasScrew(st, i) \/ NoAxis(st, i) THEN Raise(st)
    ELSE [st EXCEPT !.op.initial_attrs = Put(@, i, ScrewAttrs(st, i, TRUE))]

set_operator_properties_from_master_radial_screw(st) ==
    IF Failed(st) THEN st
    ELSE IF ~HasScrew(st, st.op.master) THEN Raise(st)
    ELSE [st EXCEPT !.op.pivot_point =
                        IF st.op.master \in DOMAIN st.op.last_set
                        THEN st.op.last_set[st.op.master] ELSE "AXIS_EMPTY",
                    !.op.spin_orientation = ScrewOf(st, st.op.master).props.spin_orientation,
                    !.op.spin_axis = ScrewOf(st, st.op.master).props.spin_axis,
                    !.op.steps = ScrewOf(st, st.op.master).props.steps,
                    !.op.steps_float = Float(ScrewOf(st, st.op.master).props.steps),
                    !.op.radius_offset = ScrewOf(st, st.op.master).props.radius_offset,
                    !.op.start_angle = ScrewOf(st, st.op.master).props.start_angle,
                    !.op.end_angle = ScrewOf(st, st.op.master).props.end_angle,
                    !.op.screw_offset = ScrewOf(st, st.op.master).props.screw_offset,
                    !.op.iterations = ScrewOf(st, st.op.master).props.iterations,
                    !.op.iterations_float = Float(ScrewOf(st, st.op.master).props.iterations)]

screw_get_pivot_point(st, i) ==
    IF Get(st.op.last_set, i) = Some(st.op.pivot_point) THEN NoPoint
    ELSE IF /\ st.op.pivot_point = "ORIGIN"
            /\ i \in DOMAIN st.op.initial_attrs
            /\ st.op.initial_attrs[i].pivot_point = "ORIGIN"
    THEN Vec(st.op.initial_attrs[i].pivot_point_co_world)
    ELSE IF /\ st.op.pivot_point = "AXIS_EMPTY"
            /\ i \in DOMAIN st.op.initial_attrs
            /\ st.op.initial_attrs[i].pivot_point = "AXIS_EMPTY"
    THEN Vec(st.op.initial_attrs[i].pivot_point_co_world)
    ELSE Sym(st.op.pivot_point)

\* The bookkeeping of modify_all_radial_screws after radial_screw.modify().
NoteScrewModified(st, i) ==
    IF Failed(st) THEN st
    ELSE [st EXCEPT !.op.modified = @ \cup {i},
                    !.op.last_set = Put(@, i, st.op.pivot_point)]

\* One turn of the loop of modify_all_radial_screws.
ModifyOneScrew(st, i) ==
    NoteScrewModified(
        RadialScrew_modify(st, i, ScrewParams(st.op), screw_get_pivot_point(st, i)), i)

RECURSIVE ModifyEachScrew(_, _)
ModifyEachScrew(st, is) ==
    IF is = <<>> \/ Failed(st) THEN st
    ELSE ModifyEachScrew(ModifyOneScrew(st, Head(is)), Tail(is))

modify_all_radial_screws(st) ==
    IF Failed(st) THEN st ELSE ModifyEachScrew(st, <<st.op.master>> \o st.op.slaves)

\* radial_screws.new() on the list made last
NewScrewInLastList(st) == ObjectRadialScrews_new(st, LastList(st))

NoteNewScrewSlave(st) ==
    store_new_radial_screw_attrs(
        [st EXCEPT !.op.new_radial_screws = Append(@, NewestInst(st)),
                   !.op.slaves = Append(@, NewestInst(st))],
        NewestInst(st))

RECURSIVE BuildNewScrewSlaves(_, _)
BuildNewScrewSlaves(st, obs) ==
    IF obs = <<>> \/ Failed(st) THEN st
    ELSE BuildNewScrewSlaves(
            NoteNewScrewSlave(NewScrewInLastList(ObjectRadialScrews(st, Head(obs)))),
            Tail(obs))

NoteNewScrewMaster(st) ==
    store_new_radial_screw_attrs(
        [st EXCEPT !.op.master = NewestInst(st),
                   !.op.new_radial_screws = Append(@, NewestInst(st))],
        NewestInst(st))

build_new_radial_screws(st) ==
    BuildNewScrewSlaves(NoteNewScrewMaster(ObjectRadialScrews_new(st, st.op.master_list)),
                        st.op.slave_obs)

NoteScrewSlave(st) ==
    store_existing_radial_screw_attrs(
        [st EXCEPT !.op.slaves = Append(@, TopOf(st, LastList(st))[1])],
        TopOf(st, LastList(st))[1])

\* The top screw of the slave object, or a new one when it has none.
TopOrNewScrew(st) ==
    IF TopOf(st, LastList(st)) = None
    THEN NoteNewScrewSlave(NewScrewInLastList(st))
    ELSE NoteScrewSlave(st)

RECURSIVE BuildExistingScrewSlaves(_, _)
BuildExistingScrewSlaves(st, obs) ==
    IF obs = <<>> \/ Failed(st) THEN st
    ELSE BuildExistingScrewSlaves(TopOrNewScrew(ObjectRadialScrews(st, Head(obs))), Tail(obs))

\* Defined where the master object has a radial screw (success = True).
build_radial_screws_from_modifiers(st) ==
    BuildExistingScrewSlaves(
        store_existing_radial_screw_attrs(
            [st EXCEPT !.op.master = TopOf(st, st.op.master_list)[1]],
            TopOf(st, st.op.master_list)[1]),
        st.op.slave_obs)

\* self.master_ob_radial_screws = ObjectRadialScrews(context, self.master_ob)
MasterScrewList(st) == [st EXCEPT !.op.master_list = LastList(st)]

BuildScrewsFrom(st) ==
    IF st.op.new \/ TopOf(st, st.op.master_list) = None
    THEN build_new_radial_screws(st)
    ELSE build_radial_screws_from_modifiers(st)

build_radial_screws_on_init(st) ==
    BuildScrewsFrom(MasterScrewList(ObjectRadialScrews(st, st.op.master_ob)))

collect_objects_with_radial_screw(st) ==
    [st EXCEPT !.op.master_ob = st.scene.active,
               !.op.slave_obs = st.scene.selected_slaves]

\* "if self.master_radial_screw not in self.new_radial_screws: ..."
SetScrewPropertiesOnInvoke(st) ==
    IF Failed(st) THEN st
    ELSE set_operator_properties_from_event_and_context(
            IF st.op.master \notin SeqRange(st.op.new_radial_screws)
            THEN set_operator_properties_from_master_radial_screw(st)
            ELSE st)

screw_invoke(st) ==
    Running(modify_all_radial_screws(
        SetScrewPropertiesOnInvoke(
            build_radial_screws_on_init(collect_objects_with_radial_screw(st)))))

screw_wheel_up(st) ==
    modify_all_radial_screws(
        [cancel_typing(st) EXCEPT !.op.steps = IntPropMin1(st.op.steps + 1)])

screw_wheel_down(st) ==
    modify_all_radial_screws(
        [cancel_typing(st) EXCEPT !.op.steps = IntPropMin1(Max(1, st.op.steps - 1))])

\* MOUSEMOVE of the screw modal: the steps and the iterations are dragged
\* independently, each while its own key is held.
steps_dragged(st, pixels, shift) ==
    LET s1 == [st EXCEPT !.op.steps_float = @ + DragOffset(pixels, shift)]
    IN  IF ~st.op.steps_changing THEN st
        ELSE IF st.op.steps # IntOf(s1.op.steps_float)
        THEN modify_all_radial_screws(
                [s1 EXCEPT !.op.steps = IntPropMin1(IntOf(s1.op.steps_float))])
        ELSE s1

iterations_dragged(st, pixels, shift) ==
    LET s1 == [st EXCEPT !.op.iterations_float = @ + DragOffset(pixels, shift)]
    IN  IF Failed(st) \/ ~st.op.iterations_changing THEN st
        ELSE IF st.op.iterations # IntOf(s1.op.iterations_float)
        THEN modify_all_radial_screws(
                [s1 EXCEPT !.op.iterations = IntPropMin1(IntOf(s1.op.iterations_float))])
        ELSE s1

screw_mouse_moved(st, pixels, shift) ==
    iterations_dragged(steps_dragged(st, pixels, shift), pixels, shift)

steps_changing_pressed(st) == [cancel_typing(st) EXCEPT !.op.steps_changing = TRUE]

steps_changing_released(st) == [cancel_typing(st) EXCEPT !.op.steps_changing = FALSE]

iterations_changing_pressed(st) == [st EXCEPT !.op.iterations_changing = TRUE]

screw_radius_offset_changing_pressed(st) ==
    IF ObOf(st, st.op.master).type = "MESH"
    THEN [st EXCEPT !.op.radius_offset_changing = TRUE]
    ELSE st

iterations_changing_released(st) == [st EXCEPT !.op.iterations_changing = FALSE]

\* get_property_default(self, idname) of the screw operator, which declares
\* "steps" and no "count".
ScrewPropertyDefaults == {<<"steps", 16>>, <<"radius_offset", 0>>, <<"start_angle", 0>>,
                          <<"end_angle", R360>>, <<"screw_offset", 0>>, <<"iterations", 1>>}

screw_reset_count(st) ==
    LET s1 == Lookup(cancel_typing(st), "steps", ScrewPropertyDefaults, "count")
    IN  IF Failed(s1) THEN s1
        ELSE modify_all_radial_screws([s1 EXCEPT !.op.steps_float = Float(s1.op.steps)])

reset_iterations(st) ==
    LET s1 == Lookup(st, "iterations", ScrewPropertyDefaults, "iterations")
    IN  IF Failed(s1) THEN s1
        ELSE modify_all_radial_screws(
                [s1 EXCEPT !.op.iterations_float = Float(s1.op.iterations)])

\* The operator fields after a digit key; a leading 0 is not taken.
ScrewDigitTyped(st, digit) ==
    IF st.op.typed_string = None
    THEN [st EXCEPT !.op.steps_before_typing = st.op.steps,
                    !.op.steps = IntPropMin1(digit),
                    !.op.typed_string = Some(<<digit>>)]
    ELSE [st EXCEPT !.op.typed_string = Some(Append(@[1], digit)),
                    !.op.steps = IntPropMin1(ToInt(Append(st.op.typed_string[1], digit)))]

screw_digit_pressed(st, digit) ==
    IF st.op.typed_string = None /\ digit = 0 THEN st
    ELSE modify_all_radial_screws(ScrewDigitTyped(st, digit))

\* The operator fields after a backspace while digits are being typed.
ScrewBackSpaced(st) ==
    IF st.op.typed_string[1] # <<>>
    THEN [st EXCEPT !.op.typed_string = Some(SubSeq(@[1], 1, Len(@[1]) - 1)),
                    !.op.steps = IntPropMin1(
                        IF Len(st.op.typed_string[1]) > 1
                        THEN ToInt(SubSeq(st.op.typed_string[1], 1,
                                          Len(st.op.typed_string[1]) - 1))
                        ELSE 1)]
    ELSE [st EXCEPT !.op.steps = IntPropMin1(st.op.steps_before_typing),
                    !.op.typed_string = None]

screw_back_space(st) ==
    IF st.op.typed_string = None THEN st ELSE modify_all_radial_screws(ScrewBackSpaced(st))

screw_spin_orientation_key(st) ==
    modify_all_radial_screws(
        Lookup(st, "spin_orientation",
               IF st.scene.mode = "OBJECT"
               THEN {<<"GLOBAL", "LOCAL">>, <<"LOCAL", "VIEW">>, <<"VIEW", "GLOBAL">>}
               ELSE {<<"GLOBAL", "LOCAL">>, <<"LOCAL", "VIEW">>, <<"VIEW", "NORMAL">>,
                     <<"NORMAL", "GLOBAL">>},
               st.op.spin_orientation))

screw_spin_axis_key(st) ==
    modify_all_radial_screws(
        Lookup(st, "spin_axis", {<<"X", "Y">>, <<"Y", "Z">>, <<"Z", "X">>}, st.op.spin_axis))

screw_axis_key(st, axis) == modify_all_radial_screws([st EXCEPT !.op.spin_axis = axis])

screw_set_next_pivot_point(st) ==
    Lookup(st, "pivot_point",
           IF st.scene.mode = "OBJECT"
           THEN {<<"CURSOR", "ORIGIN">>, <<"ORIGIN", "AXIS_EMPTY">>,
                 <<"AXIS_EMPTY", "CURSOR">>}
           ELSE {<<"CURSOR", "ORIGIN">>, <<"ORIGIN", "AXIS_EMPTY">>,
                 <<"AXIS_EMPTY", "MESH_SELECTION">>, <<"MESH_SELECTION", "CURSOR">>},
           st.op.pivot_point)

screw_pivot_point_key(st) == modify_all_radial_screws(screw_set_next_pivot_point(st))

\* The screw of the master object next to the active one, in `direction`.
ScrewNeighbour(st, direction) ==
    IndexOf(st.heap.lists[st.op.master_list].value, st.op.master)
        + (IF direction = "PREV" THEN 0 - 1 ELSE 1)

CanSwitchScrew(st, direction) ==
    /\ st.op.master \in SeqRange(st.heap.lists[st.op.master_list].value)
    /\ ScrewNeighbour(st, direction) \in DOMAIN st.heap.lists[st.op.master_list].value

SwitchedScrew(st, direction) ==
    [st EXCEPT !.op.master =
        st.heap.lists[st.op.master_list].value[ScrewNeighbour(st, direction)]]

StoreSwitchedScrew(st) == store_existing_radial_screw_attrs(st, st.op.master)

switch_radial_screw(st, direction) ==
    IF ~CanSwitchScrew(st, direction) THEN st
    ELSE modify_all_radial_screws(
            set_operator_properties_from_master_radial_screw(
                StoreSwitchedScrew(SwitchedScrew(st, direction))))

add_radial_screws(st) ==
    modify_all_radial_screws(build_new_radial_screws([st EXCEPT !.op.pivot_point = "CURSOR"]))

screw_apply_one(st, i) == Report(RadialScrew_apply(st, i), RadialScrew_apply_result(st, i))

RECURSIVE ApplyEachScrew(_, _)
ApplyEachScrew(st, is) ==
    IF is = <<>> \/ Failed(st) THEN st
    ELSE ApplyEachScrew(screw_apply_one(st, Head(is)), Tail(is))

apply_active_radial_screws(st) == ApplyEachScrew(st, <<st.op.master>> \o st.op.slaves)

RECURSIVE RemoveEachScrew(_, _)
RemoveEachScrew(st, is) ==
    IF is = <<>> \/ Failed(st) THEN st
    ELSE RemoveEachScrew(RadialScrew_remove(st, Head(is)), Tail(is))

remove_active_radial_screws(st) == RemoveEachScrew(st, <<st.op.master>> \o st.op.slaves)

remove_new_radial_screws(st) == RemoveEachScrew(st, st.op.new_radial_screws)

screw_restore_one(st, i) ==
    IF i \notin DOMAIN st.op.initial_attrs \/ ~HasScrew(st, i) THEN Raise(st)
    ELSE IF ~st.op.initial_attrs[i].full THEN Raise(st)
    ELSE SetScrew(st, i, [ScrewOf(st, i) EXCEPT !.props =
            [st.op.initial_attrs[i].props EXCEPT !.spin_orientation_matrix_object =
                StoredFromRavel(Transposed(@))]])

RECURSIVE RestoreEachScrew(_, _)
RestoreEachScrew(st, is) ==
    IF is = {} \/ Failed(st) THEN st
    ELSE RestoreEachScrew(screw_restore_one(st, CHOOSE x \in is : TRUE),
                          is \ {CHOOSE x \in is : TRUE})

\* The writes go to the property groups of different screws, so the order
\* in which the set is walked does not show.
restore_radial_screw_attributes(st) ==
    RestoreEachScrew(st, st.op.modified \ SeqRange(st.op.new_radial_screws))

screw_restore_pivot_one(st, i) ==
    IF i \in DOMAIN st.op.last_set
    THEN IF i \in DOMAIN st.op.initial_attrs
         THEN RadialScrewPivotPoint_set(st, i, Vec(st.op.initial_attrs[i].pivot_point_co_world))
         ELSE Raise(st)
    ELSE RadialScrew_refresh(st, i)

RECURSIVE RestoreScrewPivotEach(_, _)
RestoreScrewPivotEach(st, is) ==
    IF is = <<>> \/ Failed(st) THEN st
    ELSE RestoreScrewPivotEach(screw_restore_pivot_one(st, Head(is)), Tail(is))

\* `order` is the order in which the set modified_radial_screws is walked.
restore_radial_duplicates_pivot_points_or_refresh(st, order) ==
    RestoreScrewPivotEach(st, order)

restore_all_radial_screws(st, order) ==
    remove_new_radial_screws(
        restore_radial_duplicates_pivot_points_or_refresh(
            restore_radial_screw_attributes(st), order))

screw_cancel(st, order) == Finished(restore_all_radial_screws(st, order), "CANCELLED")

(***************************************************************************)
(* The state machine of a screw session.  When ghost.tracking is set, the  *)
(* ghost also follows the pivot symbols: used maps <<instance, symbol>> to *)
(* the pivot coordinate the instance had after the symbol was last set     *)
(* before the latest event, now holds the same for the latest event, and   *)
(* toggled tells that the latest event changed the symbol.                 *)
(***************************************************************************)
Merge(f, g) == [k \in (DOMAIN f) \cup (DOMAIN g) |-> IF k \in DOMAIN g THEN g[k] ELSE f[k]]

\* The screws the session works on whose pivot can be read.
ActiveScrews(st) ==
    {i \in SeqRange(<<st.op.master>> \o st.op.slaves) : HasScrew(st, i) /\ ~NoAxis(st, i)}

ScrewCaptures(st) ==
    IF Failed(st) \/ st.op.state # "RUNNING" THEN <<>>
    ELSE [k \in {<<i, st.op.pivot_point>> : i \in ActiveScrews(st)} |->
            RadialScrewPivotPoint_co_world(st, k[1])]

\* o is the operator before the event, st the state after it
ScrewPivots(g, o, st) ==
    IF ~g.tracking THEN g
    ELSE [g EXCEPT !.used = Merge(g.used, g.now),
                   !.now = ScrewCaptures(st),
                   !.toggled = st.op.pivot_point # o.pivot_point]

\* The steps committed to the master screw, 0 - 1 when the handler failed.
ScrewCommitted(st) ==
    IF Failed(st) \/ ~HasScrew(st, st.op.master) THEN 0 - 1
    ELSE ScrewOf(st, st.op.master).props.steps

ScrewRunning == op.kind = "SCREW" /\ op.state = "RUNNING" /\ ghost.budget > 0

ScrewOp(new, from_button, event, use_wheelmouse) ==
    [kind |-> "SCREW", state |-> "IDLE",
     new |-> new, from_button |-> from_button, event |-> event,
     use_wheelmouse |-> use_wheelmouse,
     spin_orientation |-> "LOCAL", spin_axis |-> "Z", steps |-> 16,
     radius_offset |-> 0, start_angle |-> 0, end_angle |-> R360, screw_offset |-> 0,
     iterations |-> 1, pivot_point |-> "ORIGIN",
     master_ob |-> "", slave_obs |-> <<>>,
     master_list |-> 0, master |-> 0, slaves |-> <<>>,
     new_radial_screws |-> <<>>, modified |-> {},
     initial_attrs |-> NoDict, last_set |-> NoDict,
     typed_string |-> None, steps_before_typing |-> 0,
     steps_float |-> Float(16), steps_changing |-> FALSE,
     iterations_float |-> Float(1), iterations_changing |-> FALSE,
     radius_offset_changing |-> FALSE,
     report |-> <<>>]

ScrewInvoke ==
    /\ op.kind = "SCREW" /\ op.state = "IDLE"
    /\ Becomes(screw_invoke(State))
    /\ ghost' = ScrewPivots(Invoked(ghost, scene, ScrewCommitted(StateNext)), op, StateNext)

ScrewWheelUp ==
    /\ ScrewRunning /\ op.use_wheelmouse /\ op.steps < MaxSteps
    /\ Becomes(Running(screw_wheel_up(State)))
    /\ ghost' = ScrewPivots(Plain(ghost), op, StateNext)

ScrewWheelDown ==
    /\ ScrewRunning /\ op.use_wheelmouse
    /\ Becomes(Running(screw_wheel_down(State)))
    /\ ghost' = ScrewPivots(Plain(ghost), op, StateNext)

ScrewDigit ==
    /\ ScrewRunning
    /\ \E digit \in 0..MaxDigit :
        /\ op.typed_string # None => Len(op.typed_string[1]) < MaxTyped
        /\ Becomes(Running(screw_digit_pressed(State, digit)))
        /\ ghost' = ScrewPivots(TypingEvent(ghost, digit, ScrewCommitted(StateNext)),
                                op, StateNext)

ScrewBackspace ==
    /\ ScrewRunning
    /\ Becomes(Running(screw_back_space(State)))
    /\ ghost' = ScrewPivots(TypingEvent(ghost, BackspaceKey, ScrewCommitted(StateNext)),
                            op, StateNext)

ScrewSpinOrientationKey ==
    /\ ScrewRunning
    /\ Becomes(Running(screw_spin_orientation_key(State)))
    /\ ghost' = ScrewPivots(Plain(ghost), op, StateNext)

ScrewSpinAxisKey ==
    /\ ScrewRunning
    /\ Becomes(Running(screw_spin_axis_key(State)))
    /\ ghost' = ScrewPivots(Plain(ghost), op, StateNext)

ScrewAxisKey ==
    /\ ScrewRunning
    /\ \E axis \in {"X", "Y", "Z"} : Becomes(Running(screw_axis_key(State, axis)))
    /\ ghost' = ScrewPivots(Plain(ghost), op, StateNext)

ScrewPivotPointKey ==
    /\ ScrewRunning
    /\ Becomes(Running(screw_pivot_point_key(State)))
    /\ ghost' = ScrewPivots(PivotEvent(ghost, op'), op, StateNext)

ScrewSwitch ==
    /\ ScrewRunning
    /\ \E direction \in {"PREV", "NEXT"} :
        /\ CanSwitchScrew(State, direction)
        /\ Becomes(Running(switch_radial_screw(State, direction)))
    /\ ghost' = ScrewPivots(Plain(ghost), op, StateNext)

ScrewAdd ==
    /\ ScrewRunning
    /\ ghost.adds < MaxAdds
    /\ \A o \in {op.master_ob} \cup SeqRange(op.slave_obs) : ScrewNameAvailable(State, o)
    /\ Becomes(Running(add_radial_screws(State)))
    /\ ghost' = [ScrewPivots(PivotEvent(ghost, op'), op, StateNext) EXCEPT !.adds = @ + 1]

RECURSIVE ScrewApplyLog(_, _)
ScrewApplyLog(st, is) ==
    IF is = <<>> \/ Failed(st) THEN <<>>
    ELSE <<ApplyEntry(st, RadialScrew_apply(st, Head(is)), Inst(st, Head(is)).name,
                      ScrewNodesNameOf(Inst(st, Head(is)).name), Inst(st, Head(is)).ob,
                      RadialScrew_apply_result(st, Head(is)))>>
         \o ScrewApplyLog(screw_apply_one(st, Head(is)), Tail(is))

ScrewApply ==
    /\ ScrewRunning
    /\ scene.ob[op.master_ob].type = "MESH"
    /\ Becomes(Finished(apply_active_radial_screws(State), "FINISHED"))
    /\ ghost' = [ScrewPivots(Plain(ghost), op, StateNext) EXCEPT
                    !.applies = ScrewApplyLog(State, <<op.master>> \o op.slaves)]

ScrewRemove ==
    /\ ScrewRunning
    /\ Becomes(Finished(remove_active_radial_screws(State), "FINISHED"))
    /\ ghost' = ScrewPivots(Plain(ghost), op, StateNext)

ScrewCancel ==
    /\ ScrewRunning
    /\ \E order \in WalkOrders(State, op.modified) : Becomes(screw_cancel(State, order))
    /\ ghost' = ScrewPivots(Plain(ghost), op, StateNext)

ScrewConfirm ==
    /\ ScrewRunning
    /\ Becomes(Finished(State, "FINISHED"))
    /\ ghost' = ScrewPivots(Plain(ghost), op, StateNext)

(***************************************************************************)
(* Initial states of a screw session: the radial screws that earlier       *)
(* sessions of the same operator left on M and S.                          *)
(***************************************************************************)
PriorScrewStart(sc, o) ==
    [scene |-> [sc EXCEPT !.active = o, !.selected_slaves = <<>>,
                          !.cursor = StartCo.prior_cursor],
     heap |-> EmptyHeap,
     op |-> ScrewOp(FALSE, FALSE, "PLAIN", TRUE)]

PriorScrewWheel(st, wheel) == IF wheel THEN screw_wheel_down(st) ELSE st

PriorScrewAdd(st, n) == IF n = 2 THEN add_radial_screws(st) ELSE st

\* An earlier session on object o alone: n screws, the steps lowered by the
\* wheel when wheel is TRUE, confirmed.
PriorScrewSession(sc, o, n, wheel) ==
    IF n = 0 THEN sc
    ELSE PriorEnd(PriorScrewAdd(PriorScrewWheel(screw_invoke(PriorScrewStart(sc, o)), wheel),
                                n), sc)

ScrewSelections ==
    {[slaves |-> <<>>, sn |-> 0, sw |-> FALSE]}
    \cup {[slaves |-> <<"S">>, sn |-> 0, sw |-> FALSE]}
    \cup {[slaves |-> <<"S">>, sn |-> 1, sw |-> sw] : sw \in BOOLEAN}

ScrewScenes ==
    {[PriorScrewSession(PriorScrewSession(BaseScene, "M", mn, FALSE), "S", sel.sn, sel.sw)
        EXCEPT !.selected_slaves = sel.slaves, !.mode = e.mode, !.selected = e.selected] :
        mn \in 0..2, sel \in ScrewSelections, e \in EditStates}

ScrewInit ==
    /\ scene \in ScrewScenes
    /\ heap = EmptyHeap
    /\ \E v \in Invocations : op = ScrewOp(v.new, v.from_button, v.event, v.use_wheelmouse)
    /\ ghost = [Ghost(scene, MaxScrewEvents, FALSE) EXCEPT !.tracking = TRUE]

ScrewNext ==
    \/ ScrewInvoke
    \/ ScrewWheelUp
    \/ ScrewWheelDown
    \/ ScrewSpinOrientationKey
    \/ ScrewSpinAxisKey
    \/ ScrewAxisKey
    \/ ScrewPivotPointKey
    \/ ScrewSwitch
    \/ ScrewAdd
    \/ ScrewApply
    \/ ScrewRemove
    \/ ScrewCancel
    \/ ScrewConfirm

SpecScrew == ScrewInit /\ [][ScrewNext]_vars

(***************************************************************************)
(* Toggling the pivot symbol.                                              *)
(***************************************************************************)
\* C6: when an event sets the pivot symbol to one that was used earlier in
\* the session for a construct, the construct's pivot is at the coordinate
\* it had when the symbol was used before.
C6_ToggleBackReusesCoordinate ==
    ghost.toggled =>
        \A k \in (DOMAIN ghost.now) \cap (DOMAIN ghost.used) : ghost.now[k] = ghost.used[k]

(***************************************************************************)
(* radial_objects/radial_duplicates_object.py and                          *)
(* radial_duplicates_builder.py.  A Duplicates construct is a center empty *)
(* scene.dups[k] = [co, alive, props, sibs]: props is the collection       *)
(* radial_duplicator.duplicates of the empty (at most one record), sibs    *)
(* are the duplicated objects, each with the transform it was given and    *)
(* its parent.  scene.parent[o] is the center empty a named object is      *)
(* parented to, 0 for none.  The modal's RadialDuplicates instance is      *)
(* op.radial_duplicates = [ce, start]; its duplicated_objects.value is the *)
(* list scene.dups[ce].sibs.  The property record is the keyed storage the *)
(* construct writes with props["..."] = value and reads back by the same   *)
(* key; a key is None until it is first written.  The active object of an  *)
(* invocation is a named object, never a duplicated one.                   *)
(***************************************************************************)
DupCe(st) == st.op.radial_duplicates.ce

DupStart(st) == st.op.radial_duplicates.start

DupEmpty(st) == st.scene.dups[DupCe(st)]

HasDupProps(st) == DupEmpty(st).alive /\ DupEmpty(st).props # <<>>

RadialDuplicatesProps_value(st) == DupEmpty(st).props[1]

SetDupProps(st, p) == [st EXCEPT !.scene.dups[DupCe(st)].props = <<p>>]

RadialDuplicatesPivotPoint_co_world(st) == DupEmpty(st).co

RadialDuplicates_spin_vec_object(st) ==
    [rot |-> RadialDuplicatesProps_value(st).spin_orientation_matrix_object.rot,
     tp |-> RadialDuplicatesProps_value(st).spin_orientation_matrix_object.tp,
     axis |-> RadialDuplicatesProps_value(st).spin_axis]

RadialDuplicatesProps_get_spin_orientation_matrix(st, spin_orientation) ==
    CASE spin_orientation = "GLOBAL" -> Mx("I", 0)
      [] spin_orientation = "LOCAL" -> Mx("I", st.scene.ob[DupStart(st)].origin)
      [] spin_orientation = "VIEW" -> Mx("V", 0)
      [] spin_orientation = "NORMAL" -> Mx("N", 0)

RadialDuplicatesProps_update(st, a) ==
    IF Failed(st) THEN st
    ELSE IF ~HasDupProps(st) THEN Raise(st)
    ELSE SetDupProps(st,
            [RadialDuplicatesProps_value(st) EXCEPT
                !.spin_orientation = a.spin_orientation,
                !.spin_orientation_matrix_object =
                    StoredFromRavel(Transposed(
                        MatMul(Mx("I", 0 - DupEmpty(st).co),
                               RadialDuplicatesProps_get_spin_orientation_matrix(
                                   st, a.spin_orientation)))),
                !.spin_axis = a.spin_axis,
                !.duplicates_rotation = a.duplicates_rotation,
                !.count = a.count,
                !.end_angle = a.end_angle,
                !.end_scale = a.end_scale,
                !.height_offset = a.height_offset])

RadialDuplicatesStartingObject_refresh(st) ==
    IF Failed(st) THEN st
    ELSE [st EXCEPT !.scene.parent[DupStart(st)] = DupCe(st)]

\* starting_ob.copy(): the copy has the transform and the parent of the
\* starting object.
StartingObCopy(st) ==
    [co |-> st.scene.ob[DupStart(st)].origin, lift |-> ZeroVec,
     angle |-> [step |-> Rat(0, 1), times |-> 0], about |-> 0, axis |-> ZeroVec.dir,
     own |-> [mode |-> "FOLLOW", draw |-> 0], scale |-> Rat(1, 1),
     parent |-> st.scene.parent[DupStart(st)]]

\* A count change that keeps the objects of the list and adds count - 1
\* copies of the starting object to them.
RadialDuplicatesDuplicatedObjects_set_countAppending(st) ==
    IF Failed(st) THEN st
    ELSE IF ~HasDupProps(st) THEN Raise(st)
    ELSE [st EXCEPT !.scene.dups[DupCe(st)].sibs =
            @ \o [i \in 1..(RadialDuplicatesProps_value(st).count - 1) |->
                        StartingObCopy(st)]]

\* The objects of the list are removed from the scene and count - 1 copies
\* of the starting object take their place.
RadialDuplicatesDuplicatedObjects_set_count(st) ==
    IF Failed(st) THEN st
    ELSE IF ~HasDupProps(st) THEN Raise(st)
    ELSE [st EXCEPT !.scene.dups[DupCe(st)].sibs =
            [i \in 1..(RadialDuplicatesProps_value(st).count - 1) |-> StartingObCopy(st)]]

RatMul(a, n) == Rat(a[1] * n, a[2])

\* A step that divides the end angle by count - 1 for every span.
step_angleOpen(props) == Rat(props.end_angle, props.count - 1)

\* The angle between two successive duplicated objects.
step_angle(props) ==
    IF Round5(props.end_angle) = Round5(R360) /\ props.height_offset = 0
    THEN Rat(props.end_angle, props.count)
    ELSE Rat(props.end_angle, props.count - 1)

\* np.linspace(1.0, end_scale, count)[i], in thousandths
spaced_scale(props, i) ==
    Rat(1000 * (props.count - 1) + (props.end_scale - 1000) * i, props.count - 1)

\* The rotation of a duplicate around its own origin; draw is the value
\* random.randrange gave for it.
OwnRotation(props, draw) ==
    CASE props.duplicates_rotation = "KEEP" -> [mode |-> "KEEP", draw |-> 0]
      [] props.duplicates_rotation = "RANDOM" -> [mode |-> "RANDOM", draw |-> draw]
      [] OTHER -> [mode |-> "FOLLOW", draw |-> 0]

\* The values random.randrange(0, 360) gives in one refresh: rnd[i % 2] for
\* the i-th duplicate.
RandomAngles == {0, 90}

RandomDraws == [{0, 1} -> RandomAngles]

NoDraws == [b \in {0, 1} |-> 0]

\* The transform _set_transforms gives the i-th duplicate; angle is the
\* rotation i * step_angle around the spin axis, kept as its two factors.
DuplicateTransform(st, props, i, rnd) ==
    [co |-> st.scene.ob[DupStart(st)].origin,
     lift |-> Scaled(RadialDuplicates_spin_vec_object(st), props.height_offset * i),
     angle |-> [step |-> step_angle(props), times |-> i],
     about |-> RadialDuplicatesPivotPoint_co_world(st),
     axis |-> RadialDuplicates_spin_vec_object(st),
     own |-> OwnRotation(props, rnd[i % 2]),
     scale |-> spaced_scale(props, i)]

RadialDuplicatesDuplicatedObjects_set_transforms(st, rnd) ==
    IF Failed(st) THEN st
    ELSE IF ~HasDupProps(st) THEN Raise(st)
    ELSE IF RadialDuplicatesProps_value(st).count > 1
    THEN [st EXCEPT !.scene.dups[DupCe(st)].sibs =
            [i \in DOMAIN @ |->
                DuplicateTransform(st, RadialDuplicatesProps_value(st), i, rnd)
                    @@ [parent |-> @[i].parent]]]
    ELSE st

RadialDuplicatesDuplicatedObjects_set_parent(st) ==
    IF Failed(st) THEN st
    ELSE [st EXCEPT !.scene.dups[DupCe(st)].sibs =
            [i \in DOMAIN @ |-> [@[i] EXCEPT !.parent = DupCe(st)]]]

RadialDuplicatesDuplicatedObjects_refresh(st, rnd) ==
    RadialDuplicatesDuplicatedObjects_set_parent(
        RadialDuplicatesDuplicatedObjects_set_transforms(
            RadialDuplicatesDuplicatedObjects_set_count(st), rnd))

RadialDuplicates_refresh(st, rnd) ==
    RadialDuplicatesDuplicatedObjects_refresh(RadialDuplicatesStartingObject_refresh(st), rnd)

RadialDuplicatesCenterEmpty_refresh(st) ==
    IF Failed(st) THEN st
    ELSE [st EXCEPT !.scene.dups[DupCe(st)].co = RadialDuplicatesPivotPoint_co_world(st)]

RadialDuplicatesPivotPoint_get_point_co_world(st, point) ==
    IF point.kind = "VEC" THEN point.co
    ELSE CASE point.sym = "ORIGIN" -> st.scene.ob[DupStart(st)].origin
           [] point.sym = "CURSOR" -> st.scene.cursor
           [] point.sym = "MESH_SELECTION" -> st.scene.selection
           [] point.sym = "ACTIVE_OBJECT" -> st.scene.ob[st.scene.active].origin
           [] point.sym = "CENTER_EMPTY" -> DupEmpty(st).co

\* The children of the center empty keep their world transforms while it
\* is moved.
MoveCenterEmpty(st, point) ==
    IF Failed(st) THEN st
    ELSE IF ~DupEmpty(st).alive THEN Raise(st)
    ELSE [st EXCEPT !.scene.dups[DupCe(st)].co =
            RadialDuplicatesPivotPoint_get_point_co_world(st, point)]

RadialDuplicatesPivotPoint_set(st, point, rnd) ==
    RadialDuplicates_refresh(MoveCenterEmpty(st, point), rnd)

RadialDuplicates_set_pivot_point(st, point, rnd) ==
    RadialDuplicatesCenterEmpty_refresh(RadialDuplicatesPivotPoint_set(st, point, rnd))

RadialDuplicates_modify(st, a, pivot_point, rnd) ==
    IF pivot_point.kind # "NONE"
    THEN RadialDuplicates_set_pivot_point(RadialDuplicatesProps_update(st, a), pivot_point, rnd)
    ELSE RadialDuplicates_refresh(RadialDuplicatesProps_update(st, a), rnd)

RadialDuplicatesDuplicatedObjects_remove(st) ==
    IF Failed(st) THEN st
    ELSE [st EXCEPT !.scene.dups[DupCe(st)].sibs = <<>>]

\* The empty leaves the scene with its property collection; its children
\* lose their parent and keep their transforms.
RadialDuplicatesCenterEmpty_remove(st) ==
    IF Failed(st) THEN st
    ELSE IF ~DupEmpty(st).alive THEN Raise(st)
    ELSE [st EXCEPT !.scene.dups[DupCe(st)].alive = FALSE,
                    !.scene.dups[DupCe(st)].props = <<>>,
                    !.scene.parent = [o \in DOMAIN @ |-> IF @[o] = DupCe(st) THEN 0 ELSE @[o]]]

RadialDuplicates_remove(st) ==
    RadialDuplicatesCenterEmpty_remove(RadialDuplicatesDuplicatedObjects_remove(st))

\* radial_duplicates_builder.py
new_duplicates_center_empty == [co |-> 0, alive |-> TRUE, props |-> <<>>, sibs |-> <<>>]

new_duplicates_props(st, starting_ob) ==
    [spin_orientation |-> "LOCAL", spin_orientation_matrix_object |-> Mx("I", 0),
     spin_axis |-> "Z", count |-> 6, end_angle |-> R360, height_offset |-> 0,
     duplicates_rotation |-> None, end_scale |-> None,
     starting_object |-> starting_ob]

RadialDuplicatesDirector_build_new(st, starting_ob) ==
    IF Failed(st) THEN st
    ELSE [st EXCEPT
            !.scene.dups = Append(@, [new_duplicates_center_empty EXCEPT
                                        !.props = <<new_duplicates_props(st, starting_ob)>>]),
            !.op.radial_duplicates = [ce |-> Len(st.scene.dups) + 1, start |-> starting_ob]]

RadialDuplicatesDirector_build_from_props(st, k) ==
    IF Failed(st) THEN st
    ELSE [st EXCEPT !.op.radial_duplicates =
            [ce |-> k, start |-> st.scene.dups[k].props[1].starting_object]]

(***************************************************************************)
(* operators/radial_duplicates/radial_duplicates_modal.py.  The operator   *)
(* can run only in object mode (poll).  rnd stands for the values          *)
(* random.randrange gives during the handler.                              *)
(***************************************************************************)
DupParams(o) ==
    [spin_orientation |-> o.spin_orientation, spin_axis |-> o.spin_axis,
     duplicates_rotation |-> o.duplicates_rotation, count |-> o.count,
     end_angle |-> o.end_angle, end_scale |-> o.end_scale,
     height_offset |-> o.height_offset]

store_existing_radial_duplicates_attrs(st) ==
    IF Failed(st) THEN st
    ELSE [st EXCEPT !.op.radial_duplicates_initial_attrs =
            Some(DupParams(RadialDuplicatesProps_value(st))
                 @@ [spin_orientation_matrix_object |->
                        RadialDuplicatesProps_value(st).spin_orientation_matrix_object,
                     pivot_point |-> "CENTER_EMPTY",
                     pivot_point_co_world |-> RadialDuplicatesPivotPoint_co_world(st)])]

build_radial_duplicates_from_props(st, k) ==
    store_existing_radial_duplicates_attrs(RadialDuplicatesDirector_build_from_props(st, k))

build_new_radial_duplicates(st) ==
    [RadialDuplicatesDirector_build_new(st, st.scene.active) EXCEPT !.op.is_new = TRUE]

\* A named object holds no duplicates properties of its own: they are on
\* the center empty it is parented to.
build_radial_duplicates(st) ==
    IF st.op.new THEN build_new_radial_duplicates(st)
    ELSE IF st.scene.parent[st.scene.active] # 0
    THEN build_radial_duplicates_from_props(st, st.scene.parent[st.scene.active])
    ELSE build_new_radial_duplicates(st)

set_operator_properties_from_radial_duplicates(st) ==
    IF Failed(st) THEN st
    ELSE [st EXCEPT
            !.op.spin_orientation = RadialDuplicatesProps_value(st).spin_orientation,
            !.op.spin_axis = RadialDuplicatesProps_value(st).spin_axis,
            !.op.duplicates_rotation = RadialDuplicatesProps_value(st).duplicates_rotation,
            !.op.count = RadialDuplicatesProps_value(st).count,
            !.op.end_angle = RadialDuplicatesProps_value(st).end_angle,
            !.op.end_scale = RadialDuplicatesProps_value(st).end_scale,
            !.op.height_offset = RadialDuplicatesProps_value(st).height_offset,
            !.op.pivot_point = "CENTER_EMPTY"]

duplicates_get_pivot_point(st) ==
    IF st.op.last_set_pivot_point = Some(st.op.pivot_point) THEN NoPoint
    ELSE IF /\ st.op.pivot_point = "ORIGIN"
            /\ st.op.radial_duplicates_initial_attrs # None
            /\ st.op.radial_duplicates_initial_attrs[1].pivot_point = "ORIGIN"
    THEN Vec(st.op.radial_duplicates_initial_attrs[1].pivot_point_co_world)
    ELSE IF /\ st.op.pivot_point = "CENTER_EMPTY"
            /\ st.op.radial_duplicates_initial_attrs # None
            /\ st.op.radial_duplicates_initial_attrs[1].pivot_point = "CENTER_EMPTY"
    THEN Vec(st.op.radial_duplicates_initial_attrs[1].pivot_point_co_world)
    ELSE Sym(st.op.pivot_point)

NoteDuplicatesModified(st) ==
    IF Failed(st) THEN st
    ELSE [st EXCEPT !.op.is_modified = TRUE,
                    !.op.last_set_pivot_point = Some(st.op.pivot_point)]

modify_radial_duplicates(st, rnd) ==
    IF Failed(st) THEN st
    ELSE NoteDuplicatesModified(
            RadialDuplicates_modify(st, DupParams(st.op), duplicates_get_pivot_point(st), rnd))

SetDuplicatesPropertiesOnInvoke(st) ==
    set_operator_properties_from_event_and_context(
        IF st.op.is_new THEN st ELSE set_operator_properties_from_radial_duplicates(st))

duplicates_invoke(st, rnd) ==
    Running(modify_radial_duplicates(
        SetDuplicatesPropertiesOnInvoke(build_radial_duplicates(st)), rnd))

duplicates_wheel_up(st, rnd) ==
    modify_radial_duplicates(
        [cancel_typing(st) EXCEPT !.op.count = IntPropMin1(st.op.count + 1)], rnd)

duplicates_wheel_down(st, rnd) ==
    modify_radial_duplicates(
        [cancel_typing(st) EXCEPT !.op.count = IntPropMin1(Max(1, st.op.count - 1))], rnd)

\* int(str(self.count) + str(digit)) for a count that is at least 1
DuplicatesDigitTyped(st, digit) ==
    IF st.op.typed_string = None
    THEN [st EXCEPT !.op.count_before_typing = st.op.count,
                    !.op.count = IntPropMin1(digit),
                    !.op.typed_string = Some(<<digit>>)]
    ELSE [st EXCEPT !.op.count = IntPropMin1(10 * st.op.count + digit),
                    !.op.typed_string = Some(Append(@[1], digit))]

duplicates_digit_pressed(st, digit, rnd) ==
    IF st.op.typed_string = None /\ digit = 0 THEN st
    ELSE modify_radial_duplicates(DuplicatesDigitTyped(st, digit), rnd)

duplicates_back_space(st, rnd) ==
    IF st.op.typed_string = None THEN st ELSE modify_radial_duplicates(BackSpaced(st), rnd)

duplicates_spin_orientation_key(st, rnd) ==
    modify_radial_duplicates(
        Lookup(st, "spin_orientation",
               {<<"GLOBAL", "LOCAL">>, <<"LOCAL", "VIEW">>, <<"VIEW", "GLOBAL">>},
               st.op.spin_orientation), rnd)

duplicates_spin_axis_key(st, rnd) ==
    modify_radial_duplicates(
        Lookup(st, "spin_axis", {<<"X", "Y">>, <<"Y", "Z">>, <<"Z", "X">>}, st.op.spin_axis),
        rnd)

duplicates_axis_key(st, axis, rnd) ==
    modify_radial_duplicates([st EXCEPT !.op.spin_axis = axis], rnd)

set_next_duplicates_rotation(st) ==
    Lookup(st, "duplicates_rotation",
           {<<"FOLLOW", "KEEP">>, <<"KEEP", "RANDOM">>, <<"RANDOM", "FOLLOW">>},
           st.op.duplicates_rotation)

duplicates_rotation_key(st, rnd) ==
    modify_radial_duplicates(set_next_duplicates_rotation(st), rnd)

duplicates_set_next_pivot_point(st) ==
    Lookup(st, "pivot_point",
           IF st.op.is_new
           THEN {<<"CURSOR", "ORIGIN">>, <<"ORIGIN", "CURSOR">>}
           ELSE {<<"CURSOR", "ORIGIN">>, <<"ORIGIN", "CENTER_EMPTY">>,
                 <<"CENTER_EMPTY", "CURSOR">>},
           st.op.pivot_point)

duplicates_pivot_point_key(st, rnd) ==
    modify_radial_duplicates(duplicates_set_next_pivot_point(st), rnd)

duplicates_reset_count(st, rnd) ==
    modify_radial_duplicates([st EXCEPT !.op.count = 6], rnd)

remove_radial_duplicates(st) == RadialDuplicates_remove(st)

restore_radial_duplicates_attributes(st) ==
    IF Failed(st) THEN st
    ELSE IF ~HasDupProps(st) THEN Raise(st)
    ELSE SetDupProps(st,
            [RadialDuplicatesProps_value(st) EXCEPT
                !.spin_orientation_matrix_object =
                    StoredFromRavel(Transposed(
                        st.op.radial_duplicates_initial_attrs[1].spin_orientation_matrix_object)),
                !.spin_orientation = st.op.radial_duplicates_initial_attrs[1].spin_orientation,
                !.spin_axis = st.op.radial_duplicates_initial_attrs[1].spin_axis,
                !.duplicates_rotation =
                    st.op.radial_duplicates_initial_attrs[1].duplicates_rotation,
                !.count = st.op.radial_duplicates_initial_attrs[1].count,
                !.end_angle = st.op.radial_duplicates_initial_attrs[1].end_angle,
                !.end_scale = st.op.radial_duplicates_initial_attrs[1].end_scale,
                !.height_offset = st.op.radial_duplicates_initial_attrs[1].height_offset])

RestoreDuplicatesPivot(st, rnd) ==
    IF Failed(st) THEN st
    ELSE IF st.op.last_set_pivot_point # None
    THEN RadialDuplicates_set_pivot_point(
            st, Vec(st.op.radial_duplicates_initial_attrs[1].pivot_point_co_world), rnd)
    ELSE RadialDuplicates_refresh(st, rnd)

restore_radial_duplicates(st, rnd) ==
    IF st.op.is_new THEN remove_radial_duplicates(st)
    ELSE RestoreDuplicatesPivot(restore_radial_duplicates_attributes(st), rnd)

(***************************************************************************)
(* The Duplicates state machine.  ghost.moves records how the committed    *)
(* count of the session's construct changed in key events.                 *)
(***************************************************************************)
MaxDuplicatesEvents == 3

\* The count committed to the construct, 0 - 1 when the handler failed.
DuplicatesCommitted(st) ==
    IF Failed(st) \/ ~HasDupProps(st) THEN 0 - 1
    ELSE RadialDuplicatesProps_value(st).count

CountMove(n, m) == IF m < n THEN "SHRINK" ELSE IF m > n THEN "GROW" ELSE "SAME"

CountEvent(g, before, after) ==
    IF Failed(after) THEN g
    ELSE [g EXCEPT !.moves = @ \cup {CountMove(DuplicatesCommitted(before),
                                               DuplicatesCommitted(after))}]

DuplicatesRunning == op.kind = "DUPLICATES" /\ op.state = "RUNNING" /\ ghost.budget > 0

DuplicatesOp(new, from_button, event, use_wheelmouse) ==
    [kind |-> "DUPLICATES", state |-> "IDLE",
     new |-> new, from_button |-> from_button, event |-> event,
     use_wheelmouse |-> use_wheelmouse,
     spin_orientation |-> "LOCAL", spin_axis |-> "Z", duplicates_rotation |-> "FOLLOW",
     count |-> 6, end_angle |-> R360, end_scale |-> 1000, height_offset |-> 0,
     pivot_point |-> "ORIGIN",
     radial_duplicates |-> [ce |-> 0, start |-> ""],
     radial_duplicates_initial_attrs |-> None, last_set_pivot_point |-> None,
     is_new |-> FALSE, is_modified |-> FALSE,
     typed_string |-> None, count_before_typing |-> 0]

DuplicatesInvoke ==
    /\ op.kind = "DUPLICATES" /\ op.state = "IDLE"
    /\ \E rnd \in RandomDraws : Becomes(duplicates_invoke(State, rnd))
    /\ ghost' = Invoked(ghost, scene, DuplicatesCommitted(StateNext))

DuplicatesWheelUp ==
    /\ DuplicatesRunning /\ op.use_wheelmouse /\ op.count < MaxCount
    /\ \E rnd \in RandomDraws : Becomes(Running(duplicates_wheel_up(State, rnd)))
    /\ ghost' = CountEvent(Plain(ghost), State, StateNext)

DuplicatesWheelDown ==
    /\ DuplicatesRunning /\ op.use_wheelmouse
    /\ \E rnd \in RandomDraws : Becomes(Running(duplicates_wheel_down(State, rnd)))
    /\ ghost' = CountEvent(Plain(ghost), State, StateNext)

DuplicatesDigit ==
    /\ DuplicatesRunning
    /\ \E digit \in 0..MaxDigit, rnd \in RandomDraws :
        /\ op.typed_string # None => Len(op.typed_string[1]) < MaxTyped
        /\ DuplicatesDigitTyped(State, digit).op.count <= MaxTypedCount
        /\ Becomes(Running(duplicates_digit_pressed(State, digit, rnd)))
        /\ ghost' = CountEvent(TypingEvent(ghost, digit, DuplicatesCommitted(StateNext)),
                               State, StateNext)

DuplicatesBackspace ==
    /\ DuplicatesRunning
    /\ \E rnd \in RandomDraws : Becomes(Running(duplicates_back_space(State, rnd)))
    /\ ghost' = CountEvent(TypingEvent(ghost, BackspaceKey, DuplicatesCommitted(StateNext)),
                           State, StateNext)

DuplicatesSpinOrientationKey ==
    /\ DuplicatesRunning
    /\ \E rnd \in RandomDraws : Becomes(Running(duplicates_spin_orientation_key(State, rnd)))
    /\ ghost' = Plain(ghost)

DuplicatesSpinAxisKey ==
    /\ DuplicatesRunning
    /\ \E rnd \in RandomDraws : Becomes(Running(duplicates_spin_axis_key(State, rnd)))
    /\ ghost' = Plain(ghost)

DuplicatesAxisKey ==
    /\ DuplicatesRunning
    /\ \E axis \in {"X", "Y", "Z"}, rnd \in RandomDraws :
        Becomes(Running(duplicates_axis_key(State, axis, rnd)))
    /\ ghost' = Plain(ghost)

DuplicatesRotationKey ==
    /\ DuplicatesRunning
    /\ \E rnd \in RandomDraws : Becomes(Running(duplicates_rotation_key(State, rnd)))
    /\ ghost' = Plain(ghost)

DuplicatesPivotPointKey ==
    /\ DuplicatesRunning
    /\ \E rnd \in RandomDraws : Becomes(Running(duplicates_pivot_point_key(State, rnd)))
    /\ ghost' = PivotEvent(ghost, op')

DuplicatesResetCount ==
    /\ DuplicatesRunning
    /\ \E rnd \in RandomDraws : Becomes(Running(duplicates_reset_count(State, rnd)))
    /\ ghost' = CountEvent(Plain(ghost), State, StateNext)

DuplicatesRemove ==
    /\ DuplicatesRunning
    /\ Becomes(Finished(remove_radial_duplicates(State), "FINISHED"))
    /\ ghost' = Plain(ghost)

DuplicatesCancel ==
    /\ DuplicatesRunning
    /\ \E rnd \in RandomDraws :
        Becomes(Finished(restore_radial_duplicates(State, rnd), "CANCELLED"))
    /\ ghost' = Plain(ghost)

DuplicatesConfirm ==
    /\ DuplicatesRunning
    /\ Becomes(Finished(State, "FINISHED"))
    /\ ghost' = Plain(ghost)

\* An earlier session on object o that left a construct with the given
\* rotation mode, count, end angle and height offset, confirmed.
PriorDuplicatesStart(sc, o, pr) ==
    [scene |-> [sc EXCEPT !.active = o, !.cursor = StartCo.prior_cursor],
     heap |-> EmptyHeap,
     op |-> [DuplicatesOp(FALSE, FALSE, "PLAIN", TRUE) EXCEPT
                !.duplicates_rotation = pr.rotation, !.count = pr.count,
                !.end_angle = pr.end_angle, !.height_offset = pr.height_offset]]

PriorDuplicatesSession(sc, o, pr, rnd) ==
    PriorEnd(duplicates_invoke(PriorDuplicatesStart(sc, o, pr), rnd), sc)

R270 == (3 * R360) \div 4

DuplicatesPriors ==
    {[rotation |-> "FOLLOW", count |-> 3, end_angle |-> R360, height_offset |-> 0],
     [rotation |-> "RANDOM", count |-> 2, end_angle |-> R270, height_offset |-> 0],
     [rotation |-> "KEEP", count |-> 1, end_angle |-> R360, height_offset |-> 1]}

DuplicatesScenes ==
    {BaseScene}
    \cup {PriorDuplicatesSession(BaseScene, "M", pr, rnd) :
            pr \in DuplicatesPriors, rnd \in RandomDraws}

DuplicatesInit ==
    /\ scene \in DuplicatesScenes
    /\ heap = EmptyHeap
    /\ \E v \in Invocations :
        op = DuplicatesOp(v.new, v.from_button, v.event, v.use_wheelmouse)
    /\ ghost = Ghost(scene, MaxDuplicatesEvents, FALSE)

DuplicatesNext ==
    \/ DuplicatesInvoke
    \/ DuplicatesWheelUp
    \/ DuplicatesWheelDown
    \/ DuplicatesSpinOrientationKey
    \/ DuplicatesSpinAxisKey
    \/ DuplicatesAxisKey
    \/ DuplicatesRotationKey
    \/ DuplicatesPivotPointKey
    \/ DuplicatesResetCount
    \/ DuplicatesRemove
    \/ DuplicatesCancel
    \/ DuplicatesConfirm

SpecDuplicates == DuplicatesInit /\ [][DuplicatesNext]_vars

(***************************************************************************)
(* Typed digit entry in the three modal operators.  The runs of this       *)
(* specification are the key events of a session that types digits, with   *)
(* the log of keys and committed counts kept in ghost.                     *)
(***************************************************************************)
ArrayTypingScenes == {PriorSession(BaseScene, "M", mn, TRUE) : mn \in 0..1}

ScrewTypingScenes == {PriorScrewSession(BaseScene, "M", mn, TRUE) : mn \in 0..1}

DuplicatesTypingScenes ==
    {BaseScene}
    \cup {PriorDuplicatesSession(BaseScene, "M", pr, NoDraws) :
            pr \in {q \in DuplicatesPriors : q.rotation = "FOLLOW"}}

\* Invocations from the keymap, on the last construct or for a new one.
TypingInvocations == {v \in Invocations : v.event = "PLAIN"}

TypingInit ==
    /\ heap = EmptyHeap
    /\ \E v \in TypingInvocations :
        \/ /\ scene \in ArrayTypingScenes
           /\ op = ArrayOp(v.new, v.from_button, v.event, v.use_wheelmouse)
        \/ /\ scene \in ScrewTypingScenes
           /\ op = ScrewOp(v.new, v.from_button, v.event, v.use_wheelmouse)
        \/ /\ scene \in DuplicatesTypingScenes
           /\ op = DuplicatesOp(v.new, v.from_button, v.event, v.use_wheelmouse)
    /\ ghost = Ghost(scene, MaxTypingEvents, TRUE)

TypingNext ==
    \/ ArrayInvoke
    \/ ArrayDigit
    \/ ArrayBackspace
    \/ ScrewInvoke
    \/ ScrewDigit
    \/ ScrewBackspace
    \/ DuplicatesInvoke
    \/ DuplicatesDigit
    \/ DuplicatesBackspace

SpecTyping == TypingInit /\ [][TypingNext]_vars

Prefix(s, t) == Len(s) <= Len(t) /\ s = SubSeq(t, 1, Len(s))

TypedOneTwoBackBack == <<1, 2, BackspaceKey, BackspaceKey>>

MaxApplyEvents == 3

Mirrored(sc, o) ==
    [sc EXCEPT !.ob[o].mods = <<[name |-> "Mirror", type |-> "MIRROR"]>> \o @]

ArrayApplyScenes ==
    {[PriorSession(PriorSession(sc, "M", mn, FALSE), "S", sel.sn, FALSE)
        EXCEPT !.selected_slaves = sel.slaves] :
        sc \in {BaseScene, Mirrored(BaseScene, "M")}, mn \in 0..2,
        sel \in {s \in Selections : ~s.sw}}

ScrewApplyScenes ==
    {[PriorScrewSession(PriorScrewSession(sc, "M", mn, FALSE), "S", sel.sn, FALSE)
        EXCEPT !.selected_slaves = sel.slaves] :
        sc \in {BaseScene, Mirrored(BaseScene, "M")}, mn \in 0..2,
        sel \in {s \in ScrewSelections : ~s.sw}}

ApplyInit ==
    /\ heap = EmptyHeap
    /\ \E v \in Invocations :
        \/ /\ scene \in ArrayApplyScenes
           /\ op = ArrayOp(v.new, v.from_button, v.event, v.use_wheelmouse)
        \/ /\ scene \in ScrewApplyScenes
           /\ op = ScrewOp(v.new, v.from_button, v.event, v.use_wheelmouse)
    /\ ghost = Ghost(scene, MaxApplyEvents, FALSE)

ApplyNext ==
    \/ ArrayInvoke
    \/ ArraySwitch
    \/ ArrayAdd
    \/ ArrayPivotPointKey
    \/ ArrayApply
    \/ ScrewInvoke
    \/ ScrewSwitch
    \/ ScrewAdd
    \/ ScrewPivotPointKey
    \/ ScrewApply

SpecApply == ApplyInit /\ [][ApplyNext]_vars

\* C7: apply() on a construct that is not first in the modifier stack
\* returns a warning, apply() on a construct that is first returns the empty
\* string, and in both cases the modifier has been applied on return.
C7_ApplyWarnsUnlessFirst ==
    \A k \in DOMAIN ghost.applies :
        /\ ghost.applies[k].first <=> ghost.applies[k].message = ""
        /\ ~ghost.applies[k].first <=> ghost.applies[k].message = WarnNotFirst
        /\ ghost.applies[k].done

MaxStepCount == 5

StepDegrees == {0 - 90, 0, 90, 270, 360, 450, 720}

StepHeights == {0, 1}

\* math.radians(d), in micro-radians
Radians(d) == (d \div 360) * R360 + ((d % 360) * (R360 \div 5)) \div 72

StepInputs ==
    [count : 2..MaxStepCount, start_deg : StepDegrees, end_deg : StepDegrees,
     height_offset : StepHeights]

StepProps(in) ==
    [count |-> in.count, start_angle |-> Radians(in.start_deg),
     end_angle |-> Radians(in.end_deg), height_offset |-> in.height_offset]

StepInit ==
    /\ scene = BaseScene
    /\ heap = EmptyHeap
    /\ \E in \in StepInputs :
        op = [kind |-> "STEP", state |-> "IDLE", input |-> in, props |-> StepProps(in)]
    /\ ghost = [of |-> "", step |-> None, last |-> None]

\* RadialArrayOffsetEmpty.refresh computes the angle of the offset empty;
\* duplicate k of the array is turned by k times this angle.
ArrayStep ==
    /\ op.kind = "STEP" /\ op.state = "IDLE"
    /\ op' = [op EXCEPT !.state = "DONE"]
    /\ ghost' = [of |-> "ARRAY", step |-> Some(spin_angle(op.props)),
                 last |-> Some(RatMul(spin_angle(op.props), op.props.count - 1))]
    /\ UNCHANGED <<scene, heap>>

\* RadialDuplicatesDuplicatedObjects._set_transforms turns sibling i by
\* i times the step; a Duplicates construct has no start angle.
DuplicatesStep ==
    /\ op.kind = "STEP" /\ op.state = "IDLE" /\ op.input.start_deg = 0
    /\ op' = [op EXCEPT !.state = "DONE"]
    /\ ghost' = [of |-> "DUPLICATES", step |-> Some(step_angle(op.props)),
                 last |-> Some(RatMul(step_angle(op.props), op.props.count - 1))]
    /\ UNCHANGED <<scene, heap>>

StepNext == ArrayStep \/ DuplicatesStep

SpecStep == StepInit /\ [][StepNext]_vars

\* C10: for an array or Duplicates construct with count > 1, the step is
\* 360 degrees / count when start = 0, end = 360 degrees and height = 0,
\* and (end_angle - start_angle) / (count - 1) otherwise, and then the last
\* duplicate is turned by end_angle - start_angle from the first.
C10_StepAngle ==
    ghost.step # None =>
        IF op.input.start_deg = 0 /\ op.input.end_deg = 360 /\ op.input.height_offset = 0
        THEN ghost.step[1] = Rat(Radians(360), op.input.count)
        ELSE /\ ghost.step[1] = Rat(Radians(op.input.end_deg) - Radians(op.input.start_deg),
                                    op.input.count - 1)
             /\ ghost.last[1] = Rat(Radians(op.input.end_deg) - Radians(op.input.start_deg), 1)

\* The open arc from 0 to 270 degrees with count 4 has the step 90 degrees.
C10_OpenArcOfFour ==
    /\ op.kind = "STEP" /\ op.state = "DONE"
    /\ op.input = [count |-> 4, start_deg |-> 0, end_deg |-> 270, height_offset |-> 0]
    /\ ghost.step = Some(Rat(Radians(90), 1))
    /\ ghost.last = Some(Rat(Radians(270), 1))

(***************************************************************************)
(* Failures of event handlers.                                             *)
(***************************************************************************)
\* C11: no event handled by the array modal is fatal: in every reachable
\* state of a session the operator has not ended with a raised exception
\* (every handler completed, changing state, doing nothing, or ending the
\* session).
C11_NoHandlerRaises == op.state # "ERROR"

(***************************************************************************)
(* The life of a construct.  apply(), remove() and refresh() on an         *)
(* instance whose modifier or property record is gone, or whose helper     *)
(* object was removed from the scene, raise: RadialArray_apply,            *)
(* RadialArray_remove and RadialArray_refresh end in the failed state.     *)
(***************************************************************************)
\* C12: apply and remove are only ever invoked on a construct that still has
\* its modifier, its property record and its helpers, and no operation is
\* invoked on a construct that was already applied or removed: the apply key
\* and the remove key, pressed in any state a session reaches (after add and
\* switch, with slaves), complete for every construct of the session.
C12_ApplyAndRemoveMeetLiveConstructs ==
    [][(ArrayApply \/ ArrayRemove) => ~Failed(StateNext)]_vars

(***************************************************************************)
(* The count, the steps and the iterations of a session: dragged with the  *)
(* mouse, lowered by the wheel, typed, taken back, reset, and read from    *)
(* another construct on a switch.                                          *)
(***************************************************************************)
MaxCountEvents == 3

\* the accumulated float of a drag is followed down to -MaxDragged
MaxDragged == 6

\* event_mouse_offset_x of a MOUSEMOVE: far to the left, a little to the
\* left, to the right.
DragPixels == {0 - 1800, 0 - 450, 0 - 45, 90}

InDragRange(x) == x >= 0 - Float(MaxDragged) /\ x <= Float(MaxCount)

ArrayCountChangingPress ==
    /\ ArrayRunning
    /\ Becomes(Running(count_changing_pressed(State)))
    /\ ghost' = Plain(ghost)

ArrayCountChangingRelease ==
    /\ ArrayRunning /\ op.count_changing
    /\ Becomes(Running(count_changing_released(State)))
    /\ ghost' = Plain(ghost)

ArrayMouseMove ==
    /\ ArrayRunning /\ op.count_changing
    /\ \E pixels \in DragPixels, shift \in BOOLEAN :
        /\ InDragRange(op.count_float + DragOffset(pixels, shift))
        /\ Becomes(Running(count_dragged(State, pixels, shift)))
    /\ ghost' = Plain(ghost)

ArrayResetCount ==
    /\ ArrayRunning
    /\ Becomes(Running(reset_count(State)))
    /\ ghost' = Plain(ghost)

ScrewStepsChangingPress ==
    /\ ScrewRunning
    /\ Becomes(Running(steps_changing_pressed(State)))
    /\ ghost' = Plain(ghost)

ScrewIterationsChangingPress ==
    /\ ScrewRunning
    /\ Becomes(Running(iterations_changing_pressed(State)))
    /\ ghost' = Plain(ghost)

ScrewChangingRelease ==
    /\ ScrewRunning
    /\ \/ op.steps_changing /\ Becomes(Running(steps_changing_released(State)))
       \/ op.iterations_changing /\ Becomes(Running(iterations_changing_released(State)))
    /\ ghost' = Plain(ghost)

ScrewMouseMove ==
    /\ ScrewRunning /\ (op.steps_changing \/ op.iterations_changing)
    /\ \E pixels \in DragPixels, shift \in BOOLEAN :
        /\ op.steps_changing =>
            /\ op.steps_float + DragOffset(pixels, shift) >= 0 - Float(MaxDragged)
            /\ op.steps_float + DragOffset(pixels, shift) <= Float(MaxSteps)
        /\ op.iterations_changing => InDragRange(op.iterations_float + DragOffset(pixels, shift))
        /\ Becomes(Running(screw_mouse_moved(State, pixels, shift)))
    /\ ghost' = Plain(ghost)

ScrewResetCount ==
    /\ ScrewRunning
    /\ Becomes(Running(screw_reset_count(State)))
    /\ ghost' = Plain(ghost)

ScrewResetIterations ==
    /\ ScrewRunning
    /\ Becomes(Running(reset_iterations(State)))
    /\ ghost' = Plain(ghost)

ArrayCountScenes ==
    {[PriorSession(BaseScene, "M", mn, TRUE) EXCEPT !.selected_slaves = sl] :
        mn \in {0, 2}, sl \in {<<>>, <<"S">>}}

ScrewCountScenes ==
    {[PriorScrewSession(BaseScene, "M", mn, TRUE) EXCEPT !.selected_slaves = sl] :
        mn \in {0, 2}, sl \in {<<>>, <<"S">>}}

CountInit ==
    /\ heap = EmptyHeap
    /\ \E v \in TypingInvocations :
        \/ /\ scene \in ArrayCountScenes
           /\ op = ArrayOp(v.new, v.from_button, v.event, v.use_wheelmouse)
        \/ /\ scene \in ScrewCountScenes
           /\ op = ScrewOp(v.new, v.from_button, v.event, v.use_wheelmouse)
    /\ ghost = Ghost(scene, MaxCountEvents, FALSE)

CountNext ==
    \/ ArrayInvoke
    \/ ArrayWheelDown
    \/ ArrayDigit
    \/ ArrayBackspace
    \/ ArrayCountChangingPress
    \/ ArrayCountChangingRelease
    \/ ArrayMouseMove
    \/ ArrayResetCount
    \/ ArraySwitch
    \/ ScrewInvoke
    \/ ScrewWheelDown
    \/ ScrewDigit
    \/ ScrewBackspace
    \/ ScrewStepsChangingPress
    \/ ScrewIterationsChangingPress
    \/ ScrewChangingRelease
    \/ ScrewMouseMove
    \/ ScrewResetCount
    \/ ScrewResetIterations
    \/ ScrewSwitch

SpecCount == CountInit /\ [][CountNext]_vars

\* C13: after any sequence of events (count dragged far to the left, wheel
\* down, digits typed including 0, backspace, reset, switching) the count or
\* steps and the iterations the operator hands to modify(), and those stored
\* in every property record and modifier, are at least 1.
C13_CountsAtLeastOne ==
    /\ op.kind = "ARRAY" => op.count >= 1
    /\ op.kind = "SCREW" => op.steps >= 1 /\ op.iterations >= 1
    /\ \A o \in Objects :
        /\ \A n \in DOMAIN scene.ob[o].arrays :
            scene.ob[o].arrays[n].props.count >= 1 /\ scene.ob[o].arrays[n].am.count >= 1
        /\ \A n \in DOMAIN scene.ob[o].screws :
            /\ scene.ob[o].screws[n].props.steps >= 1
            /\ scene.ob[o].screws[n].props.iterations >= 1

\* The count was dragged below zero, and 1 was stored in master and slave.
C13_DraggedBelowZero ==
    /\ op.kind = "ARRAY" /\ op.state = "RUNNING" /\ op.count_float < 0
    /\ op.slaves # <<>>
    /\ \A i \in {op.master} \cup SeqRange(op.slaves) :
        HasArray(State, i) /\ ArrayOf(State, i).props.count = 1

(***************************************************************************)
(* Master and slaves.                                                      *)
(***************************************************************************)
\* What modify() is given for an array, read back from a property record.
Committed(props) ==
    [spin_orientation |-> props.spin_orientation, spin_axis |-> props.spin_axis,
     count |-> props.count, radius_offset |-> props.radius_offset,
     start_angle |-> props.start_angle, end_angle |-> props.end_angle,
     height_offset |-> props.height_offset]

\* The same for a screw.
CommittedScrew(props) ==
    [spin_orientation |-> props.spin_orientation, spin_axis |-> props.spin_axis,
     steps |-> props.steps, radius_offset |-> props.radius_offset,
     start_angle |-> props.start_angle, end_angle |-> props.end_angle,
     screw_offset |-> props.screw_offset, iterations |-> props.iterations]

\* C14: after each event a session has handled, the property record of every
\* slave construct holds the same orientation, axis, count or steps, angles
\* and offsets as the master's, which are the operator's.
C14_SlavesHoldMasterParameters ==
    /\ (op.kind = "ARRAY" /\ op.state = "RUNNING") =>
        \A i \in {op.master} \cup SeqRange(op.slaves) :
            /\ HasArray(State, i)
            /\ Committed(ArrayOf(State, i).props) = Committed(op)
    /\ (op.kind = "SCREW" /\ op.state = "RUNNING") =>
        \A i \in {op.master} \cup SeqRange(op.slaves) :
            /\ HasScrew(State, i)
            /\ CommittedScrew(ScrewOf(State, i).props) = CommittedScrew(op)

\* A session with a slave whose array was there before, and now holds an
\* orientation, axis and count that it did not hold before the session.
C14_SlaveFollowed ==
    /\ op.kind = "ARRAY" /\ op.state = "RUNNING" /\ op.slaves # <<>>
    /\ \E i \in SeqRange(op.slaves) :
        /\ HasArray(State, i)
        /\ Inst(State, i).ob # op.master_ob
        /\ Inst(State, i).name \in DOMAIN ghost.pre.ob[Inst(State, i).ob].arrays
        /\ LET before == ghost.pre.ob[Inst(State, i).ob].arrays[Inst(State, i).name].props
           IN  /\ before.count # ArrayOf(State, i).props.count
               /\ before.spin_axis # ArrayOf(State, i).props.spin_axis
               /\ before.spin_orientation # ArrayOf(State, i).props.spin_orientation
        /\ Committed(ArrayOf(State, i).props) = Committed(ArrayOf(State, op.master).props)

(***************************************************************************)
(* What apply() and remove() leave of a construct.  A session gives its    *)
(* arrays a radius offset (which makes the nodes modifier and its node     *)
(* group), adds arrays (which gives the arrays below a center empty), and  *)
(* is ended by the apply key or the remove key.                            *)
(***************************************************************************)
MaxTeardownEvents == 4

\* event_mouse_offset_x of a MOUSEMOVE while the radius offset is dragged
RadiusPixels == {0 - 60, 60}

ArrayRadiusOffsetChangingPress ==
    /\ ArrayRunning /\ ~op.radius_offset_changing
    /\ Becomes(Running(radius_offset_changing_pressed(State)))
    /\ ghost' = Plain(ghost)

ArrayRadiusMouseMove ==
    /\ ArrayRunning /\ op.radius_offset_changing
    /\ \E pixels \in RadiusPixels : Becomes(Running(radius_offset_dragged(State, pixels)))
    /\ ghost' = Plain(ghost)

ArrayTeardownScenes ==
    {[PriorSession(BaseScene, "M", mn, FALSE) EXCEPT !.selected_slaves = sl] :
        mn \in 0..2, sl \in {<<>>, <<"S">>}}

TeardownInit ==
    /\ scene \in ArrayTeardownScenes
    /\ heap = EmptyHeap
    /\ \E v \in TypingInvocations : op = ArrayOp(v.new, v.from_button, v.event, v.use_wheelmouse)
    /\ ghost = Ghost(scene, MaxTeardownEvents, FALSE)

TeardownNext ==
    \/ ArrayInvoke
    \/ ArrayRadiusOffsetChangingPress
    \/ ArrayRadiusMouseMove
    \/ ArrayAdd
    \/ ArraySwitch
    \/ ArrayApply
    \/ ArrayRemove

SpecTeardown == TeardownInit /\ [][TeardownNext]_vars

\* Nothing is left of the construct that instance i stood for in `before`:
\* no property record and offset empty, no array modifier, no nodes modifier
\* and node group, no center empty held, no place in the siblings list.
TornDown(before, after, i) ==
    LET o == Inst(before, i).ob
        name == Inst(before, i).name
    IN  /\ name \notin DOMAIN after.scene.ob[o].arrays
        /\ ModIndex(after.scene.ob[o].mods, name) < 0
        /\ ModIndex(after.scene.ob[o].mods, NodesNameOf(name)) < 0
        /\ NodeGroupOf(o, NodesNameOf(name)) \notin after.scene.node_groups
        /\ Inst(after, i).ce = None
        /\ i \notin SeqRange(after.heap.lists[Inst(before, i).sib].value)

\* C15: when the apply key or the remove key has been handled, nothing is left
\* of any construct it applied or removed: helpers, nodes modifier and node
\* group, property record and membership of the siblings list are gone, after
\* apply() as after remove().
C15_NothingLeftOfConstruct ==
    [][((ArrayApply \/ ArrayRemove) /\ ~Failed(StateNext)) =>
            \A i \in {op.master} \cup SeqRange(op.slaves) : TornDown(State, StateNext, i)]_vars

(***************************************************************************)
(* Who may move the object's origin.                                       *)
(***************************************************************************)
\* The construct of instance i is not the topmost of its object: another
\* radial array modifier comes after its own in the stack.
Nested(st, i) ==
    LET names == _get_radial_arrays(st, Inst(st, i).ob)
    IN  names # <<>> /\ names[Len(names)] # Inst(st, i).name

\* Where the array `name` of object o spins: at its center empty, and at the
\* object's origin when it has none.
PivotCoordinate(st, o, name) ==
    LET ce == st.scene.ob[o].arrays[name].props.center_empty
    IN  IF ce # None THEN st.scene.empties[ce[1]].co ELSE st.scene.ob[o].origin

\* The origin of the object of instance i and the pivots of its other
\* arrays are in `after` where they were in `before`.
OriginAndOthersKept(before, after, i) ==
    LET o == Inst(before, i).ob
    IN  /\ after.scene.ob[o].origin = before.scene.ob[o].origin
        /\ \A n \in DOMAIN before.scene.ob[o].arrays \ {Inst(before, i).name} :
            /\ n \in DOMAIN after.scene.ob[o].arrays
            /\ PivotCoordinate(after, o, n) = PivotCoordinate(before, o, n)

\* The loop of modify_all_radial_arrays over `is`: each turn that modifies a
\* nested construct keeps the origin and the other pivots.
RECURSIVE NestedTurnsKeepOrigin(_, _)
NestedTurnsKeepOrigin(st, is) ==
    IF is = <<>> \/ Failed(st) THEN TRUE
    ELSE /\ (Nested(st, Head(is)) /\ ~Failed(ModifyOne(st, Head(is)))) =>
                OriginAndOthersKept(st, ModifyOne(st, Head(is)), Head(is))
         /\ NestedTurnsKeepOrigin(ModifyOne(st, Head(is)), Tail(is))

\* The state in which the add key starts to modify the arrays.
BeforeAddModifies == build_new_radial_arrays([State EXCEPT !.op.pivot_point = "CURSOR"])

\* C16: only the topmost array of an object moves the object's origin: when
\* the pivot key or the add key modifies the arrays of the session, each
\* modify() of an array that is not the topmost of its object leaves the
\* object's origin and the pivot of every other array of the object where
\* they were.
C16_NestedKeepsOrigin ==
    [][/\ ArrayPivotPointKey =>
            NestedTurnsKeepOrigin(set_next_pivot_point(State), <<op.master>> \o op.slaves)
       /\ ArrayAdd =>
            NestedTurnsKeepOrigin(BeforeAddModifies,
                                  <<BeforeAddModifies.op.master>> \o BeforeAddModifies.op.slaves)
      ]_vars

(***************************************************************************)
(* The builder and the host's modifier stack (radial_array_builder.py,     *)
(* radial_screw_builder.py).  Between two sessions the user may delete or  *)
(* move any modifier in the host's interface; property records can only be *)
(* changed by the add-on.  Here scene is one object:                       *)
(*   mods   = ob.modifiers, arrays = the names in ob.radial_duplicator.    *)
(*   arrays, screws = the names in ob.radial_duplicator.screws,            *)
(* and heap holds the constructs the latest access returned.               *)
(***************************************************************************)
MaxBuilderEvents == 4

\* "Radial" in mod.name
HasRadial(name) ==
    name \in SeqRange(ArrayNames) \cup SeqRange(ScrewNames)
             \cup SeqRange(NodesNames) \cup SeqRange(ScrewNodesNames)

ModNamed(mods, name) == mods[ModIndex(mods, name) + 1]

AsState(b) == [scene |-> [ob |-> [o \in {"M"} |-> b]]]

remove_junk_props(b) ==
    [b EXCEPT !.arrays = SelectSeq(@, LAMBDA n :
        /\ ModIndex(b.mods, n) >= 0
        /\ ModNamed(b.mods, n).type = "ARRAY"
        /\ HasRadial(n))]

screw_remove_junk_props(b) ==
    [b EXCEPT !.screws = SelectSeq(@, LAMBDA n :
        /\ ModIndex(b.mods, n) >= 0
        /\ ModNamed(b.mods, n).type = "SCREW"
        /\ HasRadial(n))]

\* find_nodes_mod and sort_nodes_mod: the nodes modifier named after the
\* construct, when the stack has one, is placed before the construct's
\* modifier.
fix_nodes_mod(b, name, nodes_name) ==
    IF ModIndex(b.mods, nodes_name) >= 0 /\ ModNamed(b.mods, nodes_name).type = "NODES"
    THEN LET cur == ModIndex(b.mods, nodes_name)
             to == get_modifier_index(cur, ModIndex(b.mods, name), "BEFORE")
         IN  [b EXCEPT !.mods = MoveMod(b.mods, cur, to)]
    ELSE b

\* RadialArrayDirector.build_from_modifier: a missing record is made anew
\* and restored from the modifier.
build_from_modifier(b, name) ==
    IF ModIndex(b.mods, name) < 0 THEN b
    ELSE LET b1 == IF name \in SeqRange(b.arrays) THEN b
                   ELSE [b EXCEPT !.arrays = Append(@, name)]
         IN  fix_nodes_mod(remove_junk_props(b1), name, NodesNameOf(name))

screw_build_from_modifier(b, name) ==
    IF ModIndex(b.mods, name) < 0 THEN b
    ELSE LET b1 == IF name \in SeqRange(b.screws) THEN b
                   ELSE [b EXCEPT !.screws = Append(@, name)]
         IN  fix_nodes_mod(screw_remove_junk_props(b1), name, ScrewNodesNameOf(name))

RECURSIVE BuildEach(_, _)
BuildEach(b, names) ==
    IF names = <<>> THEN b ELSE BuildEach(build_from_modifier(b, Head(names)), Tail(names))

RECURSIVE BuildEachScrew(_, _)
BuildEachScrew(b, names) ==
    IF names = <<>> THEN b
    ELSE BuildEachScrew(screw_build_from_modifier(b, Head(names)), Tail(names))

\* RadialArrayDirector.build_new: the record named as the new modifier is
\* the one find_props returns, a new one when there is none.
build_new(b) ==
    LET name == UniqueName(AsState(b), "M")
        mods == sort_array_mod(Append(b.mods, [name |-> name, type |-> "ARRAY"]), name)
        b1 == [b EXCEPT !.mods = mods,
                        !.arrays = IF name \in SeqRange(@) THEN @ ELSE Append(@, name)]
    IN  fix_nodes_mod(remove_junk_props(b1), name, NodesNameOf(name))

screw_build_new(b) ==
    LET name == UniqueScrewName(AsState(b), "M")
        mods == sort_screw_mod(Append(b.mods, [name |-> name, type |-> "SCREW"]), name)
        b1 == [b EXCEPT !.mods = mods,
                        !.screws = IF name \in SeqRange(@) THEN @ ELSE Append(@, name)]
    IN  fix_nodes_mod(screw_remove_junk_props(b1), name, ScrewNodesNameOf(name))

BuilderIdle == op.kind = "BUILDER" /\ ghost.budget > 0

Returned(of, names, new) == [of |-> of, value |-> names, new |-> new]

\* ObjectRadialArrays(context, ob)
BuilderAccess ==
    /\ BuilderIdle
    /\ LET names == _get_radial_arrays(AsState(scene), "M")
       IN  /\ scene' = BuildEach(scene, names)
           /\ heap' = Returned("ARRAY", names, None)
    /\ op' = [op EXCEPT !.state = "ACCESSED"]
    /\ ghost' = Plain(ghost)

\* ObjectRadialArrays(context, ob).new()
BuilderNew ==
    /\ BuilderIdle
    /\ LET names == _get_radial_arrays(AsState(scene), "M")
           b == BuildEach(scene, names)
       IN  /\ NameAvailable(AsState(b), "M")
           /\ scene' = build_new(b)
           /\ heap' = Returned("ARRAY", Append(names, UniqueName(AsState(b), "M")),
                               Some(UniqueName(AsState(b), "M")))
    /\ op' = [op EXCEPT !.state = "BUILT"]
    /\ ghost' = Plain(ghost)

\* ObjectRadialScrews(context, ob)
BuilderAccessScrews ==
    /\ BuilderIdle
    /\ LET names == _get_radial_screws(AsState(scene), "M")
       IN  /\ scene' = BuildEachScrew(scene, names)
           /\ heap' = Returned("SCREW", names, None)
    /\ op' = [op EXCEPT !.state = "ACCESSED"]
    /\ ghost' = Plain(ghost)

\* ObjectRadialScrews(context, ob).new()
BuilderNewScrew ==
    /\ BuilderIdle
    /\ LET names == _get_radial_screws(AsState(scene), "M")
           b == BuildEachScrew(scene, names)
       IN  /\ ScrewNameAvailable(AsState(b), "M")
           /\ scene' = screw_build_new(b)
           /\ heap' = Returned("SCREW", Append(names, UniqueScrewName(AsState(b), "M")),
                               Some(UniqueScrewName(AsState(b), "M")))
    /\ op' = [op EXCEPT !.state = "BUILT"]
    /\ ghost' = Plain(ghost)

\* RadialArray.refresh adds the nodes modifier of a construct whose radius
\* offset or start angle is set (new_nodes_mod).
BuilderNodesMod ==
    /\ BuilderIdle
    /\ \E n \in SeqRange(_get_radial_arrays(AsState(scene), "M")) :
        /\ ModIndex(scene.mods, NodesNameOf(n)) < 0
        /\ LET mods == Append(scene.mods, [name |-> NodesNameOf(n), type |-> "NODES"])
               cur == Len(mods) - 1
           IN  scene' = [scene EXCEPT !.mods =
                   MoveMod(mods, cur, get_modifier_index(cur, ModIndex(mods, n), "BEFORE"))]
    /\ heap' = Returned("", <<>>, None)
    /\ op' = [op EXCEPT !.state = "REFRESHED"]
    /\ ghost' = Plain(ghost)

\* The user deletes a modifier in the host's interface.
UserRemovesModifier ==
    /\ BuilderIdle
    /\ \E k \in DOMAIN scene.mods :
        scene' = [scene EXCEPT !.mods = RemoveMod(@, scene.mods[k].name)]
    /\ heap' = Returned("", <<>>, None)
    /\ op' = [op EXCEPT !.state = "EDITED"]
    /\ ghost' = Plain(ghost)

\* The user moves a modifier up or down the stack in the host's interface.
UserMovesModifier ==
    /\ BuilderIdle
    /\ \E from \in 0..(Len(scene.mods) - 1), to \in 0..(Len(scene.mods) - 1) :
        /\ from # to
        /\ scene' = [scene EXCEPT !.mods = MoveMod(@, from, to)]
    /\ heap' = Returned("", <<>>, None)
    /\ op' = [op EXCEPT !.state = "EDITED"]
    /\ ghost' = Plain(ghost)

\* Stacks the user made before the add-on was first used on the object; a
\* mirror of type "MIRROR_OBJECT" is one whose mirror_object is set.
UserStacks ==
    {<<>>,
     <<[name |-> "Bevel", type |-> "BEVEL"]>>,
     <<[name |-> "Mirror", type |-> "MIRROR"], [name |-> "Bevel", type |-> "BEVEL"]>>,
     <<[name |-> "Mirror", type |-> "MIRROR_OBJECT"], [name |-> "Bevel", type |-> "BEVEL"]>>,
     <<[name |-> "Array", type |-> "ARRAY"], [name |-> "Bevel", type |-> "BEVEL"]>>}

BuilderInit ==
    /\ \E mods \in UserStacks : scene = [mods |-> mods, arrays |-> <<>>, screws |-> <<>>]
    /\ heap = Returned("", <<>>, None)
    /\ op = [kind |-> "BUILDER", state |-> "IDLE"]
    /\ ghost = [budget |-> MaxBuilderEvents, trail |-> <<>>]

BuilderNext ==
    \/ BuilderAccess
    \/ BuilderNew
    \/ BuilderAccessScrews
    \/ BuilderNewScrew
    \/ BuilderNodesMod
    \/ UserRemovesModifier
    \/ UserMovesModifier

SpecBuilder == BuilderInit /\ [][BuilderNext]_vars

\* A record of the object whose paired modifier the stack no longer has.
OrphanRecords(b) ==
    {n \in SeqRange(b.arrays) : ~\E k \in DOMAIN b.mods :
        b.mods[k].name = n /\ b.mods[k].type = "ARRAY"}

\* C17: whenever the arrays of an object are accessed, no property record
\* is left without its modifier, and every construct returned has a
\* modifier and a property record of its name.
C17_RecordAndModifierCoexist ==
    [][BuilderAccess =>
        /\ OrphanRecords(scene') = {}
        /\ \A n \in SeqRange(heap'.value) :
            /\ ModIndex(scene'.mods, n) >= 0
            /\ n \in SeqRange(scene'.arrays)]_vars

NoNodes(mods) == SelectSeq(mods, LAMBDA m : m.type # "NODES")

Construct(of) == IF of = "ARRAY" THEN "ARRAY" ELSE "SCREW"

\* The position the stack has for the modifier `name` of a construct of the
\* given kind, in the words of the documentation: after every other
\* modifier of its kind, else after the mirror modifiers without a mirror
\* object, else first (the nodes modifiers aside).
InDocumentedPosition(mods, name, kind) ==
    LET s == NoNodes(mods)
        at == ModIndex(s, name)
        same == {k \in DOMAIN s : s[k].type = kind /\ s[k].name # name}
        mirrors == {k \in DOMAIN s : s[k].type = "MIRROR"}
    IN  IF same # {} THEN \A k \in same : k - 1 < at
        ELSE IF mirrors # {} THEN \A k \in mirrors : k - 1 < at
        ELSE at = 0

RECURSIVE RightAfterLastOf(_, _, _)
RightAfterLastOf(mods, name, types) ==
    IF types = <<>> THEN ModIndex(mods, name) = 0
    ELSE LET ks == {k \in DOMAIN mods : mods[k].type = Head(types) /\ mods[k].name # name}
         IN  IF ks = {} THEN RightAfterLastOf(mods, name, Tail(types))
             ELSE ModIndex(mods, name) = (CHOOSE k \in ks : \A j \in ks : j <= k)

\* The nodes modifier of a construct, when the stack has one, is right
\* before the construct's modifier.
NodesRightBefore(mods, name, nodes_name) ==
    ModIndex(mods, nodes_name) >= 0 => ModIndex(mods, nodes_name) = ModIndex(mods, name) - 1

ArrayOtherEvent ==
    \/ ArrayWheelUp
    \/ ArrayWheelDown
    \/ ArraySpinOrientationKey
    \/ ArraySpinAxisKey
    \/ ArrayAxisKey
    \/ ArrayPivotPointKey
    \/ ArraySwitch
    \/ ArrayAdd

\* C19: confirm ends the session with FINISHED and keeps every change, the
\* apply key and the remove key end it with FINISHED, cancel ends it with
\* CANCELLED, and every other event leaves it running, waiting for the
\* next event.
C19_EventsEndOrKeepSession ==
    [][/\ ArrayConfirm => (op'.state = "FINISHED" /\ scene' = scene)
       /\ (ArrayApply \/ ArrayRemove) => op'.state = "FINISHED"
       /\ ArrayCancel => op'.state = "CANCELLED"
       /\ ArrayOtherEvent => op'.state = "RUNNING"]_vars

(***************************************************************************)
(* The add key.                                                            *)
(***************************************************************************)
RadialArrayNamesOf(sc, o) == SeqRange(_get_radial_arrays([scene |-> sc], o))

\* The add key made exactly one new array on every object of the session
\* and none on another object, each after the arrays the object had.
OneMoreOnEachTarget ==
    \A o \in Objects :
        LET old == RadialArrayNamesOf(scene, o)
            new == RadialArrayNamesOf(scene', o)
        IN  IF o \in Targets
            THEN /\ old \subseteq new
                 /\ Cardinality(new \ old) = 1
                 /\ \A a \in new \ old, b \in old :
                        ModIndex(scene'.ob[o].mods, a) > ModIndex(scene'.ob[o].mods, b)
            ELSE new = old

\* The construct edited after the add key is the one made on the master.
NewMasterEdited ==
    /\ Inst(StateNext, op'.master).ob = op.master_ob
    /\ Inst(StateNext, op'.master).name \notin RadialArrayNamesOf(scene, op.master_ob)
    /\ HasArray(StateNext, op'.master)

\* The property record of every array that was there before the add key
\* holds the numeric and enum parameters it held, and its array modifier
\* the count it had.
ExistingKeptParameters ==
    \A o \in Objects : \A n \in DOMAIN scene.ob[o].arrays :
        /\ n \in DOMAIN scene'.ob[o].arrays
        /\ Committed(scene'.ob[o].arrays[n].props) = Committed(scene.ob[o].arrays[n].props)
        /\ scene'.ob[o].arrays[n].am.count = scene.ob[o].arrays[n].am.count

MaxFollowEvents == 2

FollowInit ==
    /\ scene \in ArrayScenes
    /\ heap = EmptyHeap
    /\ \E v \in Invocations : op = ArrayOp(v.new, v.from_button, v.event, v.use_wheelmouse)
    /\ ghost = Ghost(scene, MaxFollowEvents, FALSE)

SpecFollow == FollowInit /\ [][ArrayNext]_vars

(***************************************************************************)
(* The pivot key.                                                          *)
(***************************************************************************)
\* The cycle of pivot symbols of an array session: which one applies
\* depends on the mode and on whether the array edited is the topmost of
\* its object.
ArrayPivotCycle(mode, is_top) ==
    IF mode = "OBJECT"
    THEN IF is_top THEN <<"CURSOR", "ORIGIN">>
         ELSE <<"CURSOR", "ORIGIN", "CENTER_EMPTY">>
    ELSE IF is_top THEN <<"CURSOR", "ORIGIN", "MESH_SELECTION">>
         ELSE <<"CURSOR", "ORIGIN", "CENTER_EMPTY", "MESH_SELECTION">>

\* The symbol after `symbol` in the cycle, going round.
NextInCycle(cycle, symbol) == cycle[(IndexOf(cycle, symbol) % Len(cycle)) + 1]

MasterIsTop == TopOf(State, op.master_list) = Some(op.master)

\* C21: from every pivot symbol a session holds, the pivot key yields the
\* next symbol of the cycle for the mode and for the position (topmost or
\* nested) of the construct edited.
C21_PivotKeyYieldsNextOfCycle ==
    [][ArrayPivotPointKey =>
        /\ op.pivot_point \in SeqRange(ArrayPivotCycle(scene.mode, MasterIsTop))
        /\ op'.pivot_point = NextInCycle(ArrayPivotCycle(scene.mode, MasterIsTop),
                                         op.pivot_point)]_vars

(***************************************************************************)
(* The orientation key.  An array made in mesh-edit mode with a selection  *)
(* has the orientation NORMAL (set_operator_properties_from_event_and_     *)
(* context); a later session on it may be started in object mode.          *)
(***************************************************************************)
MaxOrientEvents == 3

\* An earlier session on object o alone in the given edit state, confirmed.
PriorSessionIn(sc, o, e) ==
    [PriorEnd(invoke(PriorStart([sc EXCEPT !.mode = e.mode, !.selected = e.selected], o)), sc)
        EXCEPT !.mode = sc.mode, !.selected = sc.selected]

OrientScenes ==
    {[sc EXCEPT !.mode = e.mode, !.selected = e.selected] :
        sc \in {BaseScene} \cup {PriorSessionIn(BaseScene, "M", p) : p \in EditStates},
        e \in EditStates}

OrientInit ==
    /\ scene \in OrientScenes
    /\ heap = EmptyHeap
    /\ \E v \in Invocations : op = ArrayOp(v.new, v.from_button, v.event, v.use_wheelmouse)
    /\ ghost = Ghost(scene, MaxOrientEvents, FALSE)

OrientNext ==
    \/ ArrayInvoke
    \/ ArraySpinOrientationKey
    \/ ArraySpinAxisKey
    \/ ArrayAxisKey
    \/ ArraySwitch
    \/ ArrayConfirm

SpecOrient == OrientInit /\ [][OrientNext]_vars

OrientationCycle(mode) ==
    IF mode = "OBJECT" THEN <<"GLOBAL", "LOCAL", "VIEW">>
    ELSE <<"GLOBAL", "LOCAL", "VIEW", "NORMAL">>

\* C22: from every orientation a session holds, the orientation key yields
\* the next value of the cycle of the mode: GLOBAL, LOCAL, VIEW in object
\* mode and GLOBAL, LOCAL, VIEW, NORMAL in mesh-edit mode.
C22_OrientationKeyYieldsNextOfCycle ==
    [][ArraySpinOrientationKey =>
        /\ op.spin_orientation \in SeqRange(OrientationCycle(scene.mode))
        /\ op'.spin_orientation = NextInCycle(OrientationCycle(scene.mode),
                                              op.spin_orientation)
        /\ ~Failed(StateNext)]_vars

\* The parameters of an array session and of a screw session that a key of
\* the session can set.
ArrayParameterNames == {"spin_orientation", "spin_axis", "count", "radius_offset",
                        "start_angle", "end_angle", "height_offset", "pivot_point"}

ScrewParameterNames == {"spin_orientation", "spin_axis", "steps", "radius_offset",
                        "start_angle", "end_angle", "screw_offset", "iterations",
                        "pivot_point"}

DeclaredDefault(defaults, name) == (CHOOSE p \in defaults : p[1] = name)[2]

\* The step has set the one parameter to its declared default and has left
\* every other parameter of the session as it was.
ResetsOnly(names, defaults, name) ==
    /\ ~Failed(StateNext)
    /\ op'[name] = DeclaredDefault(defaults, name)
    /\ \A other \in names \ {name} : op'[other] = op[other]

\* C23: each reset key sets exactly one parameter to its declared default
\* and leaves every other parameter unchanged: the count of an array
\* session, the steps and the iterations of a screw session.
C23_ResetKeySetsOneParameterToDefault ==
    [][/\ ArrayResetCount => ResetsOnly(ArrayParameterNames, ArrayPropertyDefaults, "count")
       /\ ScrewResetCount => ResetsOnly(ScrewParameterNames, ScrewPropertyDefaults, "steps")
       /\ ScrewResetIterations =>
            ResetsOnly(ScrewParameterNames, ScrewPropertyDefaults, "iterations")]_vars

(***************************************************************************)
(* The mouse wheel in the three sessions, with the preference              *)
(* use_wheelmouse on and off.                                              *)
(***************************************************************************)
MaxWheelEvents == 3

wheelupmouse_unconditional(st) == wheel_up(st)

\* WHEELUPMOUSE and WHEELDOWNMOUSE without Ctrl in the array modal: with
\* the preference off the handler returns {'PASS_THROUGH'} at once.
wheelupmouse(st) == IF st.op.use_wheelmouse THEN wheel_up(st) ELSE st

wheeldownmouse(st) == IF st.op.use_wheelmouse THEN wheel_down(st) ELSE st

screw_wheelupmouse(st) == IF st.op.use_wheelmouse THEN screw_wheel_up(st) ELSE st

screw_wheeldownmouse(st) == IF st.op.use_wheelmouse THEN screw_wheel_down(st) ELSE st

duplicates_wheelupmouse(st, rnd) ==
    IF st.op.use_wheelmouse THEN duplicates_wheel_up(st, rnd) ELSE st

duplicates_wheeldownmouse(st, rnd) ==
    IF st.op.use_wheelmouse THEN duplicates_wheel_down(st, rnd) ELSE st

ArrayWheelUpMouse ==
    /\ ArrayRunning /\ op.count < MaxCount
    /\ Becomes(Running(wheelupmouse(State)))
    /\ ghost' = Plain(ghost)

ArrayWheelDownMouse ==
    /\ ArrayRunning
    /\ Becomes(Running(wheeldownmouse(State)))
    /\ ghost' = Plain(ghost)

ScrewWheelUpMouse ==
    /\ ScrewRunning /\ op.steps < MaxSteps
    /\ Becomes(Running(screw_wheelupmouse(State)))
    /\ ghost' = Plain(ghost)

ScrewWheelDownMouse ==
    /\ ScrewRunning
    /\ Becomes(Running(screw_wheeldownmouse(State)))
    /\ ghost' = Plain(ghost)

DuplicatesWheelUpMouse ==
    /\ DuplicatesRunning /\ op.count < MaxCount
    /\ \E rnd \in RandomDraws : Becomes(Running(duplicates_wheelupmouse(State, rnd)))
    /\ ghost' = Plain(ghost)

DuplicatesWheelDownMouse ==
    /\ DuplicatesRunning
    /\ \E rnd \in RandomDraws : Becomes(Running(duplicates_wheeldownmouse(State, rnd)))
    /\ ghost' = Plain(ghost)

\* self.use_wheelmouse is read from the preferences by invoke()
WheelInvocations ==
    {[new |-> n, from_button |-> FALSE, event |-> "PLAIN", use_wheelmouse |-> w] :
        n \in BOOLEAN, w \in BOOLEAN}

WheelInit ==
    /\ heap = EmptyHeap
    /\ \E v \in WheelInvocations :
        \/ /\ scene \in ArrayCountScenes
           /\ op = ArrayOp(v.new, v.from_button, v.event, v.use_wheelmouse)
        \/ /\ scene \in ScrewCountScenes
           /\ op = ScrewOp(v.new, v.from_button, v.event, v.use_wheelmouse)
        \/ /\ scene \in DuplicatesScenes
           /\ op = DuplicatesOp(v.new, v.from_button, v.event, v.use_wheelmouse)
    /\ ghost = Ghost(scene, MaxWheelEvents, FALSE)

WheelNext ==
    \/ ArrayInvoke
    \/ ArrayWheelUpMouse
    \/ ArrayWheelDownMouse
    \/ ArrayDigit
    \/ ScrewInvoke
    \/ ScrewWheelUpMouse
    \/ ScrewWheelDownMouse
    \/ ScrewDigit
    \/ DuplicatesInvoke
    \/ DuplicatesWheelUpMouse
    \/ DuplicatesWheelDownMouse

SpecWheel == WheelInit /\ [][WheelNext]_vars

PassedThrough == UNCHANGED <<scene, heap, op>>

HasNodeNetwork(o, n) ==
    \/ scene.ob[o].arrays[n].nodes # None
    \/ ModIndex(scene.ob[o].mods, NodesNameOf(n)) >= 0

OffsetRequested(props) == props.start_angle # 0 \/ props.radius_offset # 0

\* C25: every construct starts without a node network, and after any
\* sequence of modify and refresh calls (radius offset dragged up and back,
\* arrays added, switched, applied and removed) a construct has a node
\* network only if its start angle or its radius offset is not the default.
C25_NodeNetworkOnlyWhenRequested ==
    \A o \in Objects : \A n \in DOMAIN scene.ob[o].arrays :
        HasNodeNetwork(o, n) => OffsetRequested(scene.ob[o].arrays[n].props)

\* one construct of M was given a radius offset and has its node network,
\* another one of M stands at the defaults and has none
C25_NetworkMadeForOffsetOnly ==
    /\ op.state = "RUNNING"
    /\ \E n, m \in DOMAIN scene.ob["M"].arrays :
        /\ scene.ob["M"].arrays[n].props.radius_offset # 0
        /\ HasNodeNetwork("M", n)
        /\ NodeGroupOf("M", NodesNameOf(n)) \in scene.node_groups
        /\ ~OffsetRequested(scene.ob["M"].arrays[m].props)
        /\ ~HasNodeNetwork("M", m)

(***************************************************************************)
(* The non-modal operators of operators/radial_array: each builds the      *)
(* ObjectRadialArrays of the active object, looks its array up by the name *)
(* it was given, and calls one method of it.                               *)
(***************************************************************************)
MaxExecuteEvents == 3

\* ObjectRadialArrays.__getitem__(key) for a name: the first instance of
\* that name, or None.
ObjectRadialArrays_getitem(st, l, key) ==
    LET v == st.heap.lists[l].value
        at == {k \in DOMAIN v : Inst(st, v[k]).name = key}
    IN  IF at = {} THEN None ELSE Some(v[CHOOSE k \in at : \A j \in at : k <= j])

\* radial_arrays[self.name] of the active object; calling a method of None
\* raises AttributeError.
NamedArray(st, name) ==
    ObjectRadialArrays_getitem(ObjectRadialArrays(st, st.scene.active),
                               Len(st.heap.lists) + 1, name)

radial_array_remove_execute(st, name) ==
    IF NamedArray(st, name) = None THEN Raise(st)
    ELSE RadialArray_remove(ObjectRadialArrays(st, st.scene.active), NamedArray(st, name)[1])

radial_array_refresh_execute(st, name) ==
    IF NamedArray(st, name) = None THEN Raise(st)
    ELSE RadialArray_refresh(ObjectRadialArrays(st, st.scene.active), NamedArray(st, name)[1])

radial_array_apply_execute(st, name) ==
    IF NamedArray(st, name) = None THEN Raise(st)
    ELSE RadialArray_apply(ObjectRadialArrays(st, st.scene.active), NamedArray(st, name)[1])

radial_array_set_pivot_point_execute(st, name, pivot_point) ==
    IF NamedArray(st, name) = None THEN Raise(st)
    ELSE RadialArrayPivotPoint_set(ObjectRadialArrays(st, st.scene.active),
                                   NamedArray(st, name)[1], Sym(pivot_point))

\* RadialArray has no method set_object_origin: the call raises
\* AttributeError for None and for an instance alike.
radial_array_set_object_origin_execute(st, name) == Raise(st)

RECURSIVE AddEach(_, _, _, _)
AddEach(st, obs, a, pivot_point) ==
    IF obs = <<>> \/ Failed(st) THEN st
    ELSE LET s1 == NewInLastList(ObjectRadialArrays(st, Head(obs)))
         IN  AddEach(RadialArray_modify(s1, NewestInst(s1), a, Sym(pivot_point)),
                     Tail(obs), a, pivot_point)

\* context.selected_objects: the active object and the selected slaves
radial_array_add_execute(st, pivot_point) ==
    LET sel_obs == <<st.scene.active>> \o st.scene.selected_slaves
    IN  AddEach(st,
                IF pivot_point = "ACTIVE_OBJECT" THEN Tail(sel_obs) ELSE sel_obs,
                OpParams(ArrayOp(FALSE, FALSE, "PLAIN", FALSE)), pivot_point)

ExecuteOp == [kind |-> "EXECUTE", state |-> "IDLE", last |-> ""]

ExecuteReady == op.kind = "EXECUTE" /\ op.state # "ERROR" /\ ghost.budget > 0

\* The operator returns; its Python objects are dropped.
Executed(st, idname) ==
    /\ scene' = st.scene
    /\ heap' = EmptyHeap
    /\ op' = [Finished(st, "FINISHED").op EXCEPT !.last = idname]
    /\ ghost' = Plain(ghost)

ArrayRemoveExecute ==
    /\ ExecuteReady
    /\ \E name \in SeqRange(ArrayNames) :
        Executed(radial_array_remove_execute(State, name), "array_remove")

ArrayRefreshExecute ==
    /\ ExecuteReady
    /\ \E name \in SeqRange(ArrayNames) :
        Executed(radial_array_refresh_execute(State, name), "array_refresh")

ArrayApplyExecute ==
    /\ ExecuteReady /\ scene.mode = "OBJECT"
    /\ \E name \in SeqRange(ArrayNames) :
        Executed(radial_array_apply_execute(State, name), "array_apply")

ArraySetPivotPointExecute ==
    /\ ExecuteReady
    /\ \E name \in SeqRange(ArrayNames), pivot_point \in {"ORIGIN", "CURSOR", "ACTIVE_OBJECT"} :
        Executed(radial_array_set_pivot_point_execute(State, name, pivot_point),
                 "array_set_pivot_point")

ArraySetObjectOriginExecute ==
    /\ ExecuteReady
    /\ \E name \in SeqRange(ArrayNames) :
        Executed(radial_array_set_object_origin_execute(State, name),
                 "array_set_object_origin")

ArrayAddExecute ==
    /\ ExecuteReady
    /\ \A o \in Objects : Len(_get_radial_arrays(State, o)) < Len(ArrayNames)
    /\ \E pivot_point \in {"ORIGIN", "CURSOR", "ACTIVE_OBJECT"} :
        Executed(radial_array_add_execute(State, pivot_point), "array_add")

ExecuteInit ==
    /\ scene \in ArrayTeardownScenes
    /\ heap = EmptyHeap
    /\ op = ExecuteOp
    /\ ghost = Ghost(scene, MaxExecuteEvents, FALSE)

ExecuteNext ==
    \/ ArrayRemoveExecute
    \/ ArrayRefreshExecute
    \/ ArrayApplyExecute
    \/ ArraySetPivotPointExecute
    \/ ArraySetObjectOriginExecute
    \/ ArrayAddExecute

SpecExecute == ExecuteInit /\ [][ExecuteNext]_vars

\* C26: every non-modal operator of the array (add, apply, remove, refresh,
\* set pivot point, set object origin), run on an object that passes its
\* poll and with any name, of an array the object has or has not, returns
\* FINISHED or CANCELLED and does not raise.
C26_NonModalActionsReturn ==
    op.kind = "EXECUTE" => op.state \in {"IDLE", "FINISHED", "CANCELLED"}

\* The object has no array modifier that _get_radial_arrays takes.
NoRadialArray(sc, o) == _get_radial_arrays([scene |-> sc], o) = <<>>

\* radial_arrays[-1] and radial_arrays[name] of object o report None, and
\* building the list has changed nothing of the scene.
ReportsNotFound(o) ==
    LET s1 == ObjectRadialArrays(State, o)
    IN  /\ TopOf(s1, LastList(s1)) = None
        /\ \A name \in SeqRange(ArrayNames) :
                ObjectRadialArrays_getitem(s1, LastList(s1), name) = None
        /\ s1.scene = scene

\* The instance the session holds for object o.
HeldFor(st, o) ==
    {i \in {st.op.master} \cup SeqRange(st.op.slaves) : Inst(st, i).ob = o}

\* The session has made one array on o and has it among new_radial_arrays.
FellBackToNew(st, o) ==
    /\ Len(_get_radial_arrays(st, o)) = 1
    /\ HeldFor(st, o) # {}
    /\ \A i \in HeldFor(st, o) :
        /\ i \in SeqRange(st.op.new_radial_arrays)
        /\ HasArray(st, i)

\* C27: on an object without a radial array modifier the lookup by name and
\* the lookup of the last array report None and change nothing, and a
\* session invoked on such an object, as master or as slave, makes a new
\* array on it and records it in new_radial_arrays.
C27_MissingIsNotFoundThenNew ==
    [][ArrayInvoke =>
        /\ ~Failed(StateNext)
        /\ \A o \in {scene.active} \cup SeqRange(scene.selected_slaves) :
            NoRadialArray(scene, o) => ReportsNotFound(o) /\ FellBackToNew(StateNext, o)]_vars

\* a session on a master that had an array and a slave that had none: the
\* slave's array is new, the master's is not
C27_SlaveFellBack ==
    /\ op.kind = "ARRAY" /\ op.state = "RUNNING" /\ ~op.new
    /\ ~NoRadialArray(ghost.pre, "M") /\ NoRadialArray(ghost.pre, "S")
    /\ op.master \notin SeqRange(op.new_radial_arrays)
    /\ op.slaves # <<>>
    /\ FellBackToNew(State, "S")

(***************************************************************************)
(* The radius_offset_changing key on mesh and on curve objects.            *)
(***************************************************************************)
MaxRadiusKeyEvents == 3

ScrewRadiusOffsetChangingPress ==
    /\ ScrewRunning /\ ~op.radius_offset_changing
    /\ Becomes(Running(screw_radius_offset_changing_pressed(State)))
    /\ ghost' = Plain(ghost)

\* The types poll() lets through, as far as the modal tells them apart.
PolledTypes == {"MESH", "CURVE"}

RadiusKeyInit ==
    /\ heap = EmptyHeap
    /\ \E v \in TypingInvocations, t \in PolledTypes :
        \/ /\ scene \in {[sc EXCEPT !.ob["M"].type = t] : sc \in ArrayCountScenes}
           /\ op = ArrayOp(v.new, v.from_button, v.event, v.use_wheelmouse)
        \/ /\ scene \in {[sc EXCEPT !.ob["M"].type = t] : sc \in ScrewCountScenes}
           /\ op = ScrewOp(v.new, v.from_button, v.event, v.use_wheelmouse)
    /\ ghost = Ghost(scene, MaxRadiusKeyEvents, FALSE)

RadiusKeyNext ==
    \/ ArrayInvoke
    \/ ArrayRadiusOffsetChangingPress
    \/ ArrayRadiusMouseMove
    \/ ScrewInvoke
    \/ ScrewRadiusOffsetChangingPress

SpecRadiusKey == RadiusKeyInit /\ [][RadiusKeyNext]_vars

\* C28: the radius_offset_changing key pressed in a session whose active
\* object is not a mesh changes nothing: the flag stays off, the parameters
\* and the scene are as before, and the session is still running.
C28_RadiusKeyOnNonMeshIsNoOp ==
    [][((ArrayRadiusOffsetChangingPress \/ ScrewRadiusOffsetChangingPress)
            /\ scene.ob[scene.active].type # "MESH") =>
        /\ UNCHANGED <<scene, heap, op>>
        /\ ~op'.radius_offset_changing
        /\ op'.state = "RUNNING"]_vars

\* a session on a curve in which the key was pressed at every event
C28_KeyPressedOnCurve ==
    /\ op.state = "RUNNING"
    /\ scene.ob[scene.active].type = "CURVE"
    /\ ghost.budget = 0
    /\ ~op.radius_offset_changing /\ op.radius_offset = 0

\* The constructs a session holds that were there before it: the master's
\* and the slaves' that it did not make itself.
HeldExisting ==
    {i \in ({op.master} \cup SeqRange(op.slaves)) \ SeqRange(op.new_radial_arrays) :
        Inst(State, i).name \in DOMAIN ghost.pre.ob[Inst(State, i).ob].arrays}

\* The property record the construct of instance i had when the session began.
PreSessionProps(i) == ghost.pre.ob[Inst(State, i).ob].arrays[Inst(State, i).name].props

\* C29: the initial-attributes snapshot is kept per construct: the entry the
\* session reads for a construct it holds, the master's or a slave's (which
\* may carry the same modifier name on another object), is the snapshot of
\* that construct and not of another one.
C29_EachConstructHasItsOwnSnapshot ==
    (op.kind = "ARRAY" /\ op.state = "RUNNING") =>
        \A i \in HeldExisting :
            /\ Inst(State, i).name \in DOMAIN op.initial_attrs
            /\ op.initial_attrs[Inst(State, i).name].full
            /\ op.initial_attrs[Inst(State, i).name].count = PreSessionProps(i).count

\* The constructs the session has modified that were there before it.
ModifiedExisting ==
    {i \in op.modified \ SeqRange(op.new_radial_arrays) :
        Inst(State, i).name \in DOMAIN ghost.pre.ob[Inst(State, i).ob].arrays}

\* C30: every construct the session has touched has its initial-attributes
\* snapshot, taken before the session modified it: after any events
\* (parameter changes, pivot changes, switching, add) the stored values are
\* the parameters the construct had before the session.
C30_SnapshotIsPreSession ==
    (op.kind = "ARRAY" /\ op.state = "RUNNING") =>
        \A i \in ModifiedExisting :
            /\ Inst(State, i).name \in DOMAIN op.initial_attrs
            /\ op.initial_attrs[Inst(State, i).name].full
            /\ Committed(op.initial_attrs[Inst(State, i).name]) = Committed(PreSessionProps(i))

\* The instances modify_all_radial_arrays walks after the step.
WalkedNext == {op'.master} \cup SeqRange(op'.slaves)

\* C31: when invoke, the pivot key or the add key leaves the session with
\* the pivot symbol CURSOR and that symbol was not the one applied before,
\* the modify of that event puts the pivot of the master's construct and of
\* every slave's construct at the 3D cursor; no slave is passed over.
C31_NewPivotReachesEveryConstruct ==
    [][((ArrayInvoke \/ ((ArrayPivotPointKey \/ ArrayAdd) /\ op.pivot_point # "CURSOR"))
            /\ ~Failed(StateNext) /\ op'.pivot_point = "CURSOR") =>
        \A i \in WalkedNext :
            HasArray(StateNext, i) => co_world(StateNext, i) = scene'.cursor]_vars

\* A session of SpecOrient that was confirmed by the first event after invoke.
ConfirmedAtOnce ==
    op.kind = "ARRAY" /\ op.state = "FINISHED" /\ ghost.budget = MaxOrientEvents - 1

\* The whole property record apart from the reference to the center empty.
Record(props) ==
    [spin_orientation |-> props.spin_orientation, spin_axis |-> props.spin_axis,
     parameters |-> Parameters(props)]

\* C32: a session invoked on an array that was there before it and confirmed
\* with no event in between leaves the property record of the array (every
\* parameter and the cached orientation transform) and the coordinate of its
\* pivot as they were before the session.
C32_InvokeConfirmLeavesConstruct ==
    (ConfirmedAtOnce /\ op.master \in HeldExisting) =>
        LET o == op.master_ob
            n == Inst(State, op.master).name
        IN  /\ n \in DOMAIN scene.ob[o].arrays
            /\ Record(scene.ob[o].arrays[n].props) = Record(PreSessionProps(op.master))
            /\ PivotCoordinate(State, o, n)
                 = PivotCoordinate([State EXCEPT !.scene = ghost.pre], o, n)

\* The entries the step appended to the baked log of object o.
BakedNow(o) ==
    {scene'.ob[o].baked[k] :
        k \in DOMAIN scene'.ob[o].baked \ DOMAIN scene.ob[o].baked}

\* C33: during apply() the helper object the modifier of a construct depends
\* on still exists when the modifier is committed to the geometry: every
\* screw modifier that pointed to an axis empty before apply() is baked with
\* that axis empty as its object, and the empty is deleted only afterwards.
C33_HelperOutlivesCommit ==
    [][ScrewApply =>
        \A o \in Objects : \A e \in BakedNow(o) :
            /\ e.name \in DOMAIN scene.ob[o].screws
            /\ e.object = scene.ob[o].screws[e.name].sm.object]_vars

\* Typed digit entry is active and the buffer holds at least one digit.
TypingNonEmpty ==
    op.state = "RUNNING" /\ op.typed_string # None /\ op.typed_string[1] # <<>>

\* C34: in the three sessions, whenever typed digit entry is active with a
\* non-empty buffer, the committed count (or steps) is the integer value of
\* the buffer, after every interleaving of digit and backspace keys.
C34_CommittedIsTypedValue ==
    (TypingNonEmpty /\ ghost.counts # <<>>) =>
        ghost.counts[Len(ghost.counts)] = ToInt(op.typed_string[1])

\* The events of an array session that commit the count other than by a drag.
ArrayCommitsCountWithoutDrag ==
    \/ ArrayInvoke
    \/ ArrayWheelDown
    \/ ArrayDigit
    \/ ArrayBackspace
    \/ ArrayResetCount
    \/ ArraySwitch

\* C35: after every event that commits the count other than by dragging
\* (seeding at session start, wheel, digit, backspace, reset, switch) the
\* float accumulator of the count equals the committed count, so the next
\* drag continues from it.
C35_AccumulatorFollowsCommit ==
    [][(ArrayCommitsCountWithoutDrag /\ ~Failed(StateNext)) =>
        op'.count_float = Float(op'.count)]_vars

\* The accumulator after the move is the accumulator before it plus the
\* offset of some pointer movement: nothing of the remainder is dropped.
Accumulated(before, after) ==
    \E pixels \in DragPixels, shift \in BOOLEAN :
        after = before + DragOffset(pixels, shift)

\* C36 as stated: while the count is dragged, after every pointer move the
\* committed count is the float accumulator rounded to the nearest integer,
\* limited to at least 1.
C36_DraggedCountIsRounded ==
    [][ArrayMouseMove =>
        ArrayCommitted(StateNext) = IntPropMin1(RoundOf(op'.count_float))]_vars

\* C36: while the count (the steps, the iterations) is dragged, after every
\* pointer move the committed value is the float accumulator truncated
\* towards zero, limited to at least 1, and the accumulator has grown by the
\* offset of the move, so it keeps the remainder below one.
C36_DraggedCountIsTruncated ==
    [][/\ ArrayMouseMove =>
            /\ ArrayCommitted(StateNext) = IntPropMin1(IntOf(op'.count_float))
            /\ op'.count = ArrayCommitted(StateNext)
            /\ Accumulated(op.count_float, op'.count_float)
       /\ (ScrewMouseMove /\ op.steps_changing) =>
            /\ op'.steps = IntPropMin1(IntOf(op'.steps_float))
            /\ Accumulated(op.steps_float, op'.steps_float)
       /\ (ScrewMouseMove /\ op.iterations_changing) =>
            /\ op'.iterations = IntPropMin1(IntOf(op'.iterations_float))
            /\ Accumulated(op.iterations_float, op'.iterations_float)]_vars

\* A drag holds the accumulator between two integers, nearer to the upper
\* one, and the lower one is committed.
C36_RemainderKept ==
    /\ op.kind = "ARRAY" /\ op.state = "RUNNING" /\ op.count_changing
    /\ op.count_float > 0 /\ 2 * (op.count_float % FloatUnit) > FloatUnit
    /\ HasArray(State, op.master)
    /\ ArrayOf(State, op.master).props.count = op.count_float \div FloatUnit

NoNameTwice(names) ==
    \A j, k \in DOMAIN names : j # k => names[j] # names[k]

\* No object has two modifiers of one name, and no list of constructs holds
\* two constructs of one name.
OnePerName ==
    /\ \A o \in Objects :
        NoNameTwice([k \in DOMAIN scene.ob[o].mods |-> scene.ob[o].mods[k].name])
    /\ \A l \in DOMAIN heap.lists :
        NoNameTwice([k \in DOMAIN heap.lists[l].value |->
                        Inst(State, heap.lists[l].value[k]).name])

\* The constructs of the session's kind on the master object, in the order
\* of the modifier stack.
KindOn(st, o) ==
    IF st.op.kind = "ARRAY" THEN _get_radial_arrays(st, o) ELSE _get_radial_screws(st, o)

KindOnMaster(st) == KindOn(st, st.op.master_ob)

\* The names of the constructs of the session's kind the step has made on
\* the master object.
MadeOnMaster == SeqRange(KindOnMaster(StateNext)) \ SeqRange(KindOn(State, op'.master_ob))

\* The master is the last of the master object's list of constructs and the
\* last construct of its kind in the modifier stack of the master object.
EditsTop(st) ==
    LET v == st.heap.lists[st.op.master_list].value
        names == KindOnMaster(st)
    IN  /\ v # <<>> /\ v[Len(v)] = st.op.master
        /\ Inst(st, st.op.master).ob = st.op.master_ob
        /\ names # <<>> /\ names[Len(names)] = Inst(st, st.op.master).name

\* C37: an object has at most one array or screw of a name, and the
\* construct a session edits at its start and right after every add is the
\* top one (the last of the object's list, the one added most recently) of
\* that kind on the master object.
C37_OnePerNameAndTopEdited ==
    /\ []OnePerName
    /\ [][((ArrayInvoke \/ ArrayAdd \/ ScrewInvoke \/ ScrewAdd) /\ ~Failed(StateNext)) =>
            /\ EditsTop(StateNext)
            /\ MadeOnMaster # {} => Inst(StateNext, op'.master).name \in MadeOnMaster]_vars

\* The add key was pressed on a master object that carried two arrays, and
\* the third is the master.
C37_ThirdIsMaster ==
    /\ op.kind = "ARRAY" /\ op.state = "RUNNING" /\ ghost.adds = 1
    /\ Len(_get_radial_arrays(State, op.master_ob)) = 3
    /\ Inst(State, op.master).name = _get_radial_arrays(State, op.master_ob)[3]

\* The step took an array from object o.
TookArrayFrom(o) ==
    /\ DOMAIN scene'.ob[o].arrays # DOMAIN scene.ob[o].arrays
    /\ DOMAIN scene'.ob[o].arrays \subseteq DOMAIN scene.ob[o].arrays

\* The array that is topmost on o after the step has no center empty, the
\* origin of o is where the pivot of that array was before the step, and
\* every array left on o has its pivot where it was.
TopTakesOrigin(o) ==
    LET left == _get_radial_arrays(StateNext, o)
        top == left[Len(left)]
    IN  left # <<>> =>
            /\ SeqRange(left) = DOMAIN scene'.ob[o].arrays
            /\ scene'.ob[o].arrays[top].props.center_empty = None
            /\ scene'.ob[o].origin = PivotCoordinate(State, o, top)
            /\ \A n \in SeqRange(left) :
                PivotCoordinate(StateNext, o, n) = PivotCoordinate(State, o, n)

\* C38: after apply() or remove() of an array, the array that is then
\* topmost on the object has no center empty, the origin of the object is at
\* the coordinate the pivot of that array had before, and every array left
\* keeps the coordinate of its pivot.
C38_TopTakesOriginAfterTeardown ==
    [][((ArrayRemoveExecute \/ ArrayApplyExecute) /\ op'.state # "ERROR") =>
        \A o \in Objects : TookArrayFrom(o) => TopTakesOrigin(o)]_vars

\* The top array of M was removed or applied, and the array below it, whose
\* pivot was a center empty away from the origin, is the top one now.
C38_OriginMovedToLowerPivot ==
    /\ op.kind = "EXECUTE" /\ op.state = "FINISHED"
    /\ op.last \in {"array_remove", "array_apply"}
    /\ ghost.budget = MaxExecuteEvents - 1
    /\ DOMAIN scene.ob["M"].arrays = {"RadialArray"}
    /\ DOMAIN ghost.pre.ob["M"].arrays = {"RadialArray", "RadialArray.001"}
    /\ ghost.pre.ob["M"].arrays["RadialArray"].props.center_empty # None
    /\ scene.ob["M"].arrays["RadialArray"].props.center_empty = None
    /\ scene.ob["M"].origin # ghost.pre.ob["M"].origin

(***************************************************************************)
(* Switching between the constructs of the master object.  The arrow keys  *)
(* and Ctrl+wheel call switch_radial_array (switch_radial_screw) with PREV *)
(* or NEXT wherever the master stands in the list, also at its ends.       *)
(***************************************************************************)
MaxSwitchEvents == 3

Directions == {"PREV", "NEXT"}

ArraySwitchTo(direction) ==
    /\ ArrayRunning
    /\ op.master \in SeqRange(heap.lists[op.master_list].value)
    /\ Becomes(Running(switch_radial_array(State, direction)))
    /\ ghost' = Plain(ghost)

ArraySwitchKey == \E direction \in Directions : ArraySwitchTo(direction)

ScrewSwitchTo(direction) ==
    /\ ScrewRunning
    /\ op.master \in SeqRange(heap.lists[op.master_list].value)
    /\ Becomes(Running(switch_radial_screw(State, direction)))
    /\ ghost' = ScrewPivots(Plain(ghost), op, StateNext)

ScrewSwitchKey == \E direction \in Directions : ScrewSwitchTo(direction)

SwitchInit ==
    /\ heap = EmptyHeap
    /\ \E v \in TypingInvocations :
        \/ /\ scene \in ArrayTeardownScenes
           /\ op = ArrayOp(v.new, v.from_button, v.event, v.use_wheelmouse)
        \/ /\ scene \in ScrewCountScenes
           /\ op = ScrewOp(v.new, v.from_button, v.event, v.use_wheelmouse)
    /\ ghost = Ghost(scene, MaxSwitchEvents, FALSE)

SwitchNext ==
    \/ ArrayInvoke
    \/ ArrayWheelDown
    \/ ArrayAdd
    \/ ArraySwitchKey
    \/ ScrewInvoke
    \/ ScrewWheelDown
    \/ ScrewAdd
    \/ ScrewSwitchKey

SpecSwitch == SwitchInit /\ [][SwitchNext]_vars

\* The place in the master object's list the key asks for.
Asked(direction) ==
    IndexOf(heap.lists[op.master_list].value, op.master)
        + (IF direction = "PREV" THEN 0 - 1 ELSE 1)

InList(direction) == Asked(direction) \in DOMAIN heap.lists[op.master_list].value

AskedFor(direction) == heap.lists[op.master_list].value[Asked(direction)]

\* The operator holds array i as master, with the parameters and float
\* accumulators array i had stored before the step.
ArraySeededFrom(i) ==
    LET p == ArrayOf(State, i).props
    IN  /\ op'.master = i
        /\ op'.spin_orientation = p.spin_orientation /\ op'.spin_axis = p.spin_axis
        /\ op'.count = p.count /\ op'.count_float = Float(p.count)
        /\ op'.radius_offset = p.radius_offset /\ op'.radius_offset_float = p.radius_offset
        /\ op'.start_angle = p.start_angle /\ op'.end_angle = p.end_angle
        /\ op'.height_offset = p.height_offset

ScrewSeededFrom(i) ==
    LET p == ScrewOf(State, i).props
    IN  /\ op'.master = i
        /\ op'.spin_orientation = p.spin_orientation /\ op'.spin_axis = p.spin_axis
        /\ op'.steps = p.steps /\ op'.steps_float = Float(p.steps)
        /\ op'.iterations = p.iterations /\ op'.iterations_float = Float(p.iterations)
        /\ op'.radius_offset = p.radius_offset
        /\ op'.start_angle = p.start_angle /\ op'.end_angle = p.end_angle
        /\ op'.screw_offset = p.screw_offset

\* C39: a switch past either end of the master object's list of constructs
\* changes nothing of the session and of the constructs; a switch within the
\* list makes the neighbour the master and sets the operator's parameters and
\* float accumulators to those the neighbour has stored.
C39_SwitchSeedsOrDoesNothing ==
    [][\A direction \in Directions :
        /\ ArraySwitchTo(direction) =>
            IF InList(direction)
            THEN ArraySeededFrom(AskedFor(direction))
            ELSE UNCHANGED <<scene, heap, op>>
        /\ ScrewSwitchTo(direction) =>
            IF InList(direction)
            THEN ScrewSeededFrom(AskedFor(direction))
            ELSE UNCHANGED <<scene, heap, op>>]_vars

\* The session went from the top array, whose count the wheel had lowered,
\* to the array below it, and the operator holds the count stored there.
C39_SeededFromLower ==
    /\ op.kind = "ARRAY" /\ op.state = "RUNNING"
    /\ LET v == heap.lists[op.master_list].value
       IN  /\ Len(v) > 1 /\ op.master # v[Len(v)]
           /\ HasArray(State, op.master) /\ HasArray(State, v[Len(v)])
           /\ op.count = ArrayOf(State, op.master).props.count
           /\ op.count_float = Float(op.count)
           /\ ArrayOf(State, v[Len(v)]).props.count # op.count

====
